---- MODULE Spec2Model ----
(***************************************************************************)
(* The data registry of the F-22 data system manager                       *)
(* (tools/f22_data_manager.py): the SQLite-backed DataRegistry (records,   *)
(* lineage, audit log), the FileSystem helpers and the DataScanner's       *)
(* reconciliation pass.                                                    *)
(*                                                                         *)
(* Conventions.  An Optional[...] of the source is a set with at most one  *)
(* element.  A uid f"{prefix}_{hex}" is the pair <<prefix, n>>.  A digest  *)
(* is a triple: <<"sha256", size, data>> for a hexdigest, NoneHash for     *)
(* Python's None, EmptyHash for the empty string.  A path is the sequence  *)
(* of its segments.  The wall clock is a counter that moves on by one      *)
(* after every operation that reads it.                                    *)
(***************************************************************************)
EXTENDS Integers, Sequences, FiniteSets, TLC

VARIABLES
    data_records,   \* table data_records: its rows, in rowid order
    lineage,        \* table lineage: a set of rows, primary key (parent_uid, child_uid)
    audit_log,      \* table audit_log: its rows, in id order
    clock,          \* datetime.now(timezone.utc)
    last_call,      \* the registry call that completed last and how it ended
    get_call,       \* a DataRegistry.get in progress on a request thread
    fs,             \* the files under root: path -> the file there, if any
    scan,           \* DataScanner.scan in progress: its position and its locals
    uid_seq,        \* how many uids generate_uid has handed out
    hist,           \* what earlier passes saw, kept to state the properties
    build_queue,    \* table build_queue: its rows, in id order
    touch_zones,    \* table touch_zones: its rows, in rowid order
    reply,          \* what the read that returned last was asked and what it returned
    server,         \* F22DataManager.server: a server object, or NoServer
    server_thread,  \* F22DataManager.server_thread: a thread object, or NoThread
    server_enabled, \* F22DataManager._server_enabled
    stop_event,     \* F22DataManager._stop_event: set or not
    server_lock,    \* F22DataManager._server_lock: who holds it
    servers,        \* the ThreadedHTTPServer objects made so far, each with its thread
    supervisor,     \* supervisor_loop: its position and its locals
    control,        \* a start, stop or restart of the listener in progress on a thread
    main,           \* F22DataManager.start under main(): its position, the timers
    budget,         \* what the environment has done so far
    loops,          \* watcher_loop and health_loop: their positions and their locals
    post_scan       \* a scan pass in progress on a request thread (POST /scan)

store_vars == <<data_records, lineage, audit_log, clock>>
scan_vars == <<fs, scan, uid_seq, hist>>
side_vars == <<build_queue, touch_zones, reply>>
listener_vars == <<server, server_thread, server_enabled, stop_event, server_lock, servers, supervisor, control, main, budget>>
worker_vars == <<loops, post_scan>>
vars == <<data_records, lineage, audit_log, clock, last_call, get_call, fs, scan, uid_seq, hist, build_queue, touch_zones, reply, server, server_thread, server_enabled, stop_event, server_lock, servers, supervisor, control, main, budget, loops, post_scan>>

(***************************************************************************)
(* Bounds of the model.                                                    *)
(***************************************************************************)
MaxAudit == 2       \* registry calls that append to audit_log are explored up to this many
MaxEdges == 3       \* lineage rows found in the store when the process opens it
MaxPasses == 2      \* scan passes of one run
MaxEnvOps == 2      \* file writes, file removals and POST requests between the passes of one run
MaxOrderEdges == 2  \* lineage rows in the store of a pass run in two orders

UidPool == {<<"sour", 1>>, <<"sour", 2>>, <<"deri", 3>>}
NoUid == <<"none", 0>>

PathOf(uid) ==
    CASE uid = <<"sour", 1>> -> <<"data", "sources", "master_parts_v2.json">>
      [] uid = <<"sour", 2>> -> <<"data", "sources", "notes.json">>
      [] OTHER -> <<"data", "exports", "report.json">>

NoneHash == <<"None", 0, "">>
EmptyHash == <<"", 0, "">>

(***************************************************************************)
(* DataRecord and its row in data_records (the row has no parent_uids and  *)
(* no child_uids: those live in lineage).                                  *)
(***************************************************************************)
DataRecord(uid, path, category, status, size, hash, created, modified, version, parents, children, metadata) ==
    [uid |-> uid, path |-> path, category |-> category, status |-> status,
     size |-> size, hash_sha256 |-> hash, created_at |-> created,
     modified_at |-> modified, version |-> version, parent_uids |-> parents,
     child_uids |-> children, metadata |-> metadata, schema_uid |-> NoUid]

Row(record) ==
    [uid |-> record.uid, path |-> record.path, category |-> record.category,
     status |-> record.status, size |-> record.size,
     hash_sha256 |-> record.hash_sha256, created_at |-> record.created_at,
     modified_at |-> record.modified_at, version |-> record.version,
     metadata |-> record.metadata, schema_uid |-> record.schema_uid]

Store == [data_records |-> data_records, lineage |-> lineage,
          audit_log |-> audit_log, clock |-> clock]

Rows(store) == {store.data_records[i] : i \in 1..Len(store.data_records)}

\* the uids of the rows now in data_records
LiveUids == {data_records[i].uid : i \in 1..Len(data_records)}

\* SELECT parent_uid FROM lineage WHERE child_uid = ?
ParentsOf(lin, uid) == {e.parent_uid : e \in {x \in lin : x.child_uid = uid}}

\* SELECT child_uid FROM lineage WHERE parent_uid = ?
ChildrenOf(lin, uid) == {e.child_uid : e \in {x \in lin : x.parent_uid = uid}}

\* DataRegistry._audit: one INSERT INTO audit_log, stamped with _now()
auditLatestOnly(store, action, target_uid, details) ==
    [store EXCEPT
        !.audit_log = <<[timestamp |-> store.clock, action |-> action,
                         target_uid |-> target_uid, actor |-> "system",
                         details |-> details]>>,
        !.clock = @ + 1]

audit(store, action, target_uid, details) ==
    [store EXCEPT
        !.audit_log = Append(@, [timestamp |-> store.clock, action |-> action,
                                 target_uid |-> target_uid, actor |-> "system",
                                 details |-> details]),
        !.clock = @ + 1]

\* The lineage rows register inserts for its record: INSERT OR IGNORE, one per parent
RegisterEdgesKeepOld(store, record) ==
    store.lineage \cup
        {[parent_uid |-> p, child_uid |-> record.uid,
          relationship |-> "derived_from", created_at |-> store.clock] :
            p \in {q \in record.parent_uids :
                     \A e \in store.lineage :
                        ~(e.parent_uid = q /\ e.child_uid = record.uid)}}

\* DELETE FROM lineage WHERE child_uid = ?, then INSERT OR IGNORE one row per parent
RegisterEdges(store, record) ==
    {e \in store.lineage : e.child_uid # record.uid} \cup
        {[parent_uid |-> p, child_uid |-> record.uid,
          relationship |-> "derived_from", created_at |-> store.clock] :
            p \in record.parent_uids}

\* The row register writes: INSERT OR REPLACE drops the row with that uid and
\* appends the new one
RegisterRowBumpVersion(store, record) ==
    Append(SelectSeq(store.data_records, LAMBDA r : r.uid # record.uid),
           [Row(record) EXCEPT !.version = @ + 1])

RegisterRow(store, record) ==
    Append(SelectSeq(store.data_records, LAMBDA r : r.uid # record.uid),
           Row(record))

\* what register's transaction commits: the row and its edges
RegisterTx(store, record) ==
    [store EXCEPT !.data_records = RegisterRow(store, record),
                  !.lineage = RegisterEdges(store, record),
                  !.clock = @ + 1]

\* DataRegistry.register
register(store, record) ==
    audit(RegisterTx(store, record),
          "register", record.uid,
          [path |-> record.path, category |-> record.category])

\* a record read back without the parents its lineage rows name
HydrateNoParents(row, parents, children) ==
    DataRecord(row.uid, row.path, row.category, row.status, row.size,
               row.hash_sha256, row.created_at, row.modified_at, row.version,
               {}, children, row.metadata)

\* DataRegistry.get: the row, hydrated with its parents and children
Hydrate(row, parents, children) ==
    DataRecord(row.uid, row.path, row.category, row.status, row.size,
               row.hash_sha256, row.created_at, row.modified_at, row.version,
               parents, children, row.metadata)

get(store, uid) ==
    {Hydrate(r, ParentsOf(store.lineage, uid), ChildrenOf(store.lineage, uid)) :
        r \in {x \in Rows(store) : x.uid = uid}}

(***************************************************************************)
(* _get_descendants recurses once per lineage edge it follows and keeps no *)
(* visited set.  CPython ends a recursion deeper than its recursion limit  *)
(* with RecursionError.  The limit here is one more than the number of     *)
(* uids: no acyclic graph over the pool recurses that deep, and a graph    *)
(* with a cycle below uid exceeds every limit.                             *)
(***************************************************************************)
RecursionLimit == Cardinality(UidPool) + 1

\* A set as a list, in some fixed order (the order fetchall() returns rows in)
RECURSIVE AsList(_)
AsList(S) ==
    IF S = {} THEN << >>
    ELSE LET x == CHOOSE y \in S : TRUE IN <<x>> \o AsList(S \ {x})

RECURSIVE get_descendants(_, _, _)
RECURSIVE DescendInto(_, _, _, _)

\* the loop "for child in children" of _get_descendants, from the i-th child on
DescendInto(lin, children, i, depth) ==
    IF i > Len(children) THEN [ok |-> TRUE, list |-> << >>]
    ELSE LET sub == get_descendants(lin, children[i], depth + 1) IN
         IF ~sub.ok THEN sub
         ELSE LET rest == DescendInto(lin, children, i + 1, depth) IN
              IF ~rest.ok THEN rest
              ELSE [ok |-> TRUE, list |-> <<children[i]>> \o sub.list \o rest.list]

\* DataRegistry._get_descendants; ok = FALSE is RecursionError
get_descendants(lin, uid, depth) ==
    IF depth > RecursionLimit THEN [ok |-> FALSE, list |-> << >>]
    ELSE DescendInto(lin, AsList(ChildrenOf(lin, uid)), 1, depth)

\* UPDATE data_records SET status = 'stale' WHERE uid = ?, for each uid of the list
SetStale(rows, uids) ==
    [i \in 1..Len(rows) |->
        IF rows[i].uid \in uids THEN [rows[i] EXCEPT !.status = "stale"]
        ELSE rows[i]]

Range(s) == {s[i] : i \in 1..Len(s)}

\* The uids mark_stale issues an UPDATE for, in order
StaleTargetsChildrenOnly(store, uid, desc) ==
    <<uid>> \o AsList(ChildrenOf(store.lineage, uid))

StaleTargets(store, uid, desc) == <<uid>> \o desc

\* what mark_stale's transaction commits: one UPDATE per target
MarkStaleTx(store, targets) ==
    [store EXCEPT !.data_records = SetStale(@, Range(targets))]

(***************************************************************************)
(* DataRegistry.mark_stale.  An exception inside "with sqlite3.connect"    *)
(* rolls the transaction back, leaves the lock, skips _audit and reaches   *)
(* the caller: raised = TRUE and the store is as it was.                   *)
(***************************************************************************)
mark_stale(store, uid) ==
    LET d == get_descendants(store.lineage, uid, 1) IN
    IF ~d.ok
    THEN [store |-> store, raised |-> TRUE, updates |-> << >>]
    ELSE LET targets == StaleTargets(store, uid, d.list) IN
         [store |-> audit(MarkStaleTx(store, targets),
                          "mark_stale", uid, [descendants |-> Len(d.list)]),
          raised |-> FALSE,
          updates |-> targets]

\* The rows delete leaves in lineage
DeleteEdgesParentOnly(store, uid) ==
    {e \in store.lineage : e.parent_uid # uid}

DeleteEdges(store, uid) ==
    {e \in store.lineage : e.parent_uid # uid /\ e.child_uid # uid}

\* what delete's transaction commits: the edges and the row gone
DeleteTx(store, uid) ==
    [store EXCEPT
        !.lineage = DeleteEdges(store, uid),
        !.data_records = SelectSeq(@, LAMBDA r : r.uid # uid)]

\* DataRegistry.delete
delete(store, uid) ==
    audit(DeleteTx(store, uid),
          "delete", uid, [none |-> TRUE])

(***************************************************************************)
(* FileSystem.  A file is its size in bytes and what its bytes say: "ok"   *)
(* is JSON with the keys a deliverable needs, "bad" is not JSON.  The      *)
(* folders are those of DEFAULT_CONFIG.  The registry's own database and   *)
(* log files, which DEFAULT_CONFIG also puts under root, are left out of   *)
(* the tree.                                                               *)
(***************************************************************************)
hash_max_mb == 50
HashMaxBytes == hash_max_mb * 1024 * 1024

TreePaths == {<<"data", "sources", "master_parts_v2.json">>,
              <<"data", "exports", "report.json">>}

FileContents == {[size |-> 10, data |-> "ok"], [size |-> 10, data |-> "bad"],
                 [size |-> HashMaxBytes + 1, data |-> "ok"]}

\* rel.startswith(folder + "/")
StartsWith(rel, folder) ==
    Len(rel) > Len(folder) /\ SubSeq(rel, 1, Len(folder)) = folder

\* FileSystem.hash_file: None for a file larger than hash_max_mb
hash_fileNoLimit(file) == <<"sha256", file.size, file.data>>

hash_file(file) ==
    IF file.size > HashMaxBytes THEN NoneHash
    ELSE <<"sha256", file.size, file.data>>

\* hash_val or ""
OrEmpty(hash_val) == IF hash_val = NoneHash THEN EmptyHash ELSE hash_val

\* FileSystem.is_excluded
exclude_folders == {<<"node_modules">>, <<".git">>, <<"__pycache__">>,
                    <<"manager", "backups">>}

is_excluded(rel) == \E ex \in exclude_folders : rel = ex \/ StartsWith(rel, ex)

\* FileSystem.categorize_file: the first folder of the chain that rel lies under.
\* derived_folder and exports_folder are both data/exports; derived is asked first.
categorize_file(rel) ==
    IF StartsWith(rel, <<"web">>) THEN "app"
    ELSE IF StartsWith(rel, <<"data", "sources">>) THEN "source"
    ELSE IF StartsWith(rel, <<"data", "exports">>) THEN "derived"
    ELSE IF StartsWith(rel, <<"data", "models">>) THEN "model"
    ELSE IF StartsWith(rel, <<"data", "measurements">>) THEN "measurement"
    ELSE IF StartsWith(rel, <<"data", "touch_masks">>) THEN "touch_mask"
    ELSE IF StartsWith(rel, <<"data", "exports">>) THEN "export"
    ELSE IF StartsWith(rel, <<"outputs">>) THEN "output"
    ELSE IF StartsWith(rel, <<"schemas">>) THEN "schema"
    ELSE "source"

\* category.value[:4]
Prefix4(category) ==
    CASE category = "app" -> "app"
      [] category = "source" -> "sour"
      [] category = "derived" -> "deri"
      [] category = "model" -> "mode"
      [] category = "measurement" -> "meas"
      [] category = "touch_mask" -> "touc"
      [] category = "export" -> "expo"
      [] category = "output" -> "outp"
      [] OTHER -> "sche"

\* FileSystem.walk_all over a tree
walk_all(tree) == {p \in TreePaths : tree[p] # {} /\ ~is_excluded(p)}

\* DataRegistry.generate_uid: the n-th uid handed out
generate_uid(prefix, n) == <<prefix, n>>

(***************************************************************************)
(* DataScanner.                                                            *)
(***************************************************************************)
KeyFileNames == {"master_parts_v2.json", "master_inventory_v2.json",
                 "blueprint_map_v2.json", "panel_id_map_colors.json"}

\* DataScanner._validate_json_file
validate_json_file(rel, file) ==
    IF rel[Len(rel)] \notin KeyFileNames
    THEN [status |-> "valid", messages |-> << >>]
    ELSE IF file.data = "bad"
         THEN [status |-> "invalid", messages |-> <<"JSON parse failed">>]
         ELSE [status |-> "valid", messages |-> << >>]

\* DataRegistry.get_by_path: the first row with that path, through get
get_by_path(store, path) ==
    LET hits == SelectSeq(store.data_records, LAMBDA r : r.path = path) IN
    IF hits = << >> THEN {} ELSE get(store, hits[1].uid)

\* path LIKE 'prefix%' (the paths and prefixes here are lower case)
HasPrefix(path, prefix) ==
    Len(path) >= Len(prefix) /\ SubSeq(path, 1, Len(prefix)) = prefix

\* LIMIT ?: the first n rows; SQLite reads a negative LIMIT as no limit
Limit(rows, n) ==
    IF n < 0 \/ Len(rows) < n THEN rows ELSE SubSeq(rows, 1, n)

\* DataRegistry.query: SELECT uid FROM data_records WHERE ... LIMIT ?, each uid
\* through get; a filter that is not given is the empty set
query_where(store, category, status, path_prefix, limit) ==
    LET rows == SelectSeq(store.data_records, LAMBDA r :
                    /\ \A c \in category : r.category = c
                    /\ \A st \in status : r.status = st
                    /\ \A prefix \in path_prefix : HasPrefix(r.path, prefix))
        taken == Limit(rows, limit)
    IN [i \in 1..Len(taken) |-> CHOOSE r \in get(store, taken[i].uid) : TRUE]

\* DataRegistry.query without filters
query(store, limit) == query_where(store, {}, {}, {}, limit)

\* metadata["validation"] = {...}, when the validation has messages
WithValidation(metadata, v, now) ==
    IF v.messages = << >> THEN metadata
    ELSE {m \in metadata : m.key # "validation"} \cup
            {[key |-> "validation", status |-> v.status,
              messages |-> v.messages, checked_at |-> now]}

\* "for child_uid in existing.child_uids: self.registry.mark_stale(child_uid)",
\* from the i-th child on; a mark_stale that raises ends the loop
RECURSIVE MarkChildrenStale(_, _, _)
MarkChildrenStale(store, children, i) ==
    IF i > Len(children) THEN [store |-> store, raised |-> FALSE]
    ELSE LET r == mark_stale(store, children[i]) IN
         IF r.raised THEN [store |-> store, raised |-> TRUE]
         ELSE MarkChildrenStale(r.store, children, i + 1)

ZeroStats == [added |-> 0, updated |-> 0, unchanged |-> 0, removed |-> 0, errors |-> 0]

\* "existing.hash_sha256 != hash_val or existing.size != st.st_size"
Changed(existing, hash_val, file) ==
    existing.hash_sha256 # hash_val \/ existing.size # file.size

\* the record scan builds for a path that has none
NewRecordValid(uid, rel, v, file, hash_val, now) ==
    DataRecord(uid, rel, categorize_file(rel), "valid", file.size,
               OrEmpty(hash_val), now, now, 1, {}, {},
               WithValidation({}, v, now + 1))

NewRecord(uid, rel, v, file, hash_val, now) ==
    DataRecord(uid, rel, categorize_file(rel), v.status, file.size,
               OrEmpty(hash_val), now, now, 1, {}, {},
               WithValidation({}, v, now + 1))

\* the record scan writes back for a path whose file changed
UpdatedRecordNewCreated(existing, v, file, hash_val, now) ==
    [existing EXCEPT !.hash_sha256 = OrEmpty(hash_val), !.size = file.size,
                     !.created_at = now, !.modified_at = now, !.version = @ + 1,
                     !.status = v.status,
                     !.metadata = WithValidation(@, v, now + 1)]

UpdatedRecordSameVersion(existing, v, file, hash_val, now) ==
    [existing EXCEPT !.hash_sha256 = OrEmpty(hash_val), !.size = file.size,
                     !.modified_at = now,
                     !.status = v.status,
                     !.metadata = WithValidation(@, v, now + 1)]

\* a re-registration that forces the record itself to stale
UpdatedRecordForcedStale(existing, v, file, hash_val, now) ==
    [existing EXCEPT !.hash_sha256 = OrEmpty(hash_val), !.size = file.size,
                     !.modified_at = now, !.version = @ + 1,
                     !.status = "stale",
                     !.metadata = WithValidation(@, v, now + 1)]

UpdatedRecord(existing, v, file, hash_val, now) ==
    [existing EXCEPT !.hash_sha256 = OrEmpty(hash_val), !.size = file.size,
                     !.modified_at = now, !.version = @ + 1,
                     !.status = v.status,
                     !.metadata = WithValidation(@, v, now + 1)]

\* "record.path not in seen_paths"
UnobservedAndMissing(record, seen_paths) ==
    record.path \notin seen_paths /\ record.status = "missing"

Unobserved(record, seen_paths) == record.path \notin seen_paths

Bump(stats, key) == [stats EXCEPT ![key] = @ + 1]

(***************************************************************************)
(* The body of scan's "for path in files" for one path: at is what is at   *)
(* the path now, n the number of uids handed out so far.  An exception     *)
(* anywhere in the body is caught and counted in errors; what the body     *)
(* committed to the store before it stays committed.                       *)
(***************************************************************************)
scan_file(store, stats, rel, at, n) ==
    IF at = {}
    THEN [store |-> store, stats |-> Bump(stats, "errors"), uid_seq |-> n]
    ELSE
    LET file == CHOOSE f \in at : TRUE
        hash_val == hash_file(file)
        existing == get_by_path(store, rel)
        v == validate_json_file(rel, file)
        now == store.clock
        timed == [store EXCEPT !.clock = @ + (IF v.messages = << >> THEN 1 ELSE 2)]
    IN
    IF existing # {}
    THEN LET e == CHOOSE r \in existing : TRUE IN
         IF Changed(e, hash_val, file)
         THEN LET registered == register(timed, UpdatedRecord(e, v, file, hash_val, now))
                  marked == MarkChildrenStale(registered, AsList(e.child_uids), 1)
              IN [store |-> marked.store,
                  stats |-> Bump(stats, IF marked.raised THEN "errors" ELSE "updated"),
                  uid_seq |-> n]
         ELSE [store |-> store, stats |-> Bump(stats, "unchanged"), uid_seq |-> n]
    ELSE LET uid == generate_uid(Prefix4(categorize_file(rel)), n + 1) IN
         [store |-> register(timed, NewRecord(uid, rel, v, file, hash_val, now)),
          stats |-> Bump(stats, "added"),
          uid_seq |-> n + 1]

\* No pass is running, no file is on disk, no pass has run: the scanner as the
\* registry-only specifications leave it
IdleScan == [pc |-> "idle", files |-> {}, seen_paths |-> {}, stats |-> ZeroStats,
             all_records |-> << >>]

NoTree == [p \in TreePaths |-> {}]

NoHist == [done |-> 0, last_tree |-> NoTree, walked |-> NoTree,
           start_rows |-> << >>, start_lineage |-> {}, env_ops |-> 0]

NoScanner ==
    /\ fs = NoTree
    /\ scan = IdleScan
    /\ uid_seq = 0
    /\ hist = NoHist

\* No build job and no touch zone is stored and no read has returned: the side
\* tables as the specifications of records and lineage leave them
NoReply == [op |-> "none", asked |-> << >>, read |-> << >>, result |-> << >>]

NoSide ==
    /\ build_queue = << >>
    /\ touch_zones = << >>
    /\ reply = NoReply

(***************************************************************************)
(* The orchestrator's listener state.  A server object and its thread are  *)
(* the index of one entry of servers; 0 is None.                           *)
(***************************************************************************)
NoServer == 0

NoThread == 0

IdleSupervisor == [pc |-> "none", t |-> NoThread, restart_delay |-> 1]

IdleControl == [op |-> "none", pc |-> "idle", g |-> NoServer]

NoBudget == [calls |-> 0, crashes |-> 0, bind_failures |-> 0]

\* F22DataManager.__init__, lines 1436-1446, before start() is called
NoListener ==
    /\ server = NoServer
    /\ server_thread = NoThread
    /\ server_enabled = TRUE
    /\ stop_event = FALSE
    /\ server_lock = "free"
    /\ servers = << >>
    /\ supervisor = IdleSupervisor
    /\ control = IdleControl
    /\ main = [pc |-> "start", timers |-> "none", start_failed |-> FALSE]
    /\ budget = NoBudget

\* watcher_loop and health_loop are not started and no request runs a scan
IdleLoop == [pc |-> "none", left |-> 0, called |-> 0, ticks |-> 0]

NoWorkers ==
    /\ loops = [watcher |-> IdleLoop, health |-> IdleLoop]
    /\ post_scan = IdleScan

(***************************************************************************)
(* The registry alone: the calls that reach it from the HTTP handler and   *)
(* from the scanner's removal loop, each one whole.                        *)
(***************************************************************************)
Commit(store) ==
    /\ data_records' = store.data_records
    /\ lineage' = store.lineage
    /\ audit_log' = store.audit_log
    /\ clock' = store.clock

\* the calls explored so far leave room in audit_log for one more
WithinAudit == Len(audit_log) < MaxAudit

NoCall == [op |-> "none", uid |-> NoUid, raised |-> FALSE, updates |-> << >>,
           given |-> {}, old_parents |-> {}, old_children |-> {}]

ParentSets == {s \in SUBSET UidPool : Cardinality(s) <= 2}

\* The records POST /records is given: DataRecord.from_dict(data).  A caller that
\* posts a record of the pool posts its next version.
NextVersion == 2

RegisterInputs ==
    {DataRecord(u, PathOf(u), IF u[1] = "deri" THEN "derived" ELSE "source",
                "valid", 10, <<"sha256", 10, "d1">>, 0, 0, v, ps, {}, {}) :
        u \in UidPool, ps \in ParentSets, v \in {NextVersion}}

\* POST /records takes the path of a record from the request body as it takes the
\* rest: here a record of the pool posted with the path of another one
RepathInputs ==
    {DataRecord(p[1], PathOf(p[2]), IF p[1][1] = "deri" THEN "derived" ELSE "source",
                "valid", 10, <<"sha256", 10, "d1">>, 0, 0, NextVersion, {}, {}, {}) :
        p \in {q \in UidPool \X UidPool : q[1] # q[2]}}

\* handle_api_post, path "records"
ApiRegister(record) ==
    /\ Commit(register(Store, record))
    /\ last_call' = [op |-> "register", uid |-> record.uid, raised |-> FALSE,
                     updates |-> << >>, given |-> {record},
                     old_parents |-> ParentsOf(lineage, record.uid),
                     old_children |-> ChildrenOf(lineage, record.uid)]

\* handle_api_post, path "records/<uid>/stale"
ApiMarkStale(uid) ==
    /\ LET r == mark_stale(Store, uid) IN
        /\ Commit(r.store)
        /\ last_call' = [op |-> "mark_stale", uid |-> uid, raised |-> r.raised,
                         updates |-> r.updates, given |-> {},
                         old_parents |-> {}, old_children |-> {}]

\* scan's removal loop: self.registry.delete(record.uid), for a record query returned
RemovalDelete(uid) ==
    /\ uid \in {r.uid : r \in Rows(Store)}
    /\ Commit(delete(Store, uid))
    /\ last_call' = [op |-> "delete", uid |-> uid, raised |-> FALSE,
                     updates |-> << >>, given |-> {},
                     old_parents |-> ParentsOf(lineage, uid),
                     old_children |-> ChildrenOf(lineage, uid)]

(***************************************************************************)
(* DataRegistry.get on a request thread.  It takes no lock and opens no    *)
(* transaction: its three SELECTs are three statements in autocommit mode, *)
(* and a writer on another thread may commit between any two of them.      *)
(* seen collects, for the uid of the call, the <<parents, children>> of    *)
(* every state the store is in from the first SELECT to the return.        *)
(***************************************************************************)
NoGet == [pc |-> "idle", uid |-> NoUid, row |-> {}, parents |-> {},
          children |-> {}, result |-> {}, seen |-> {}]

Snapshot(lin, uid) == <<ParentsOf(lin, uid), ChildrenOf(lin, uid)>>

\* row = conn.execute("SELECT * FROM data_records WHERE uid = ?").fetchone()
GetSelectRow(uid) ==
    /\ get_call.pc = "idle"
    /\ LET row == {r \in Rows(Store) : r.uid = uid} IN
        get_call' = [NoGet EXCEPT !.pc = IF row = {} THEN "returned" ELSE "row",
                                  !.uid = uid, !.row = row,
                                  !.seen = {Snapshot(lineage, uid)}]
    /\ UNCHANGED <<store_vars, last_call, scan_vars, side_vars, listener_vars, worker_vars>>

\* parents = [... "SELECT parent_uid FROM lineage WHERE child_uid = ?" ...]
GetSelectParents ==
    /\ get_call.pc = "row"
    /\ get_call' = [get_call EXCEPT !.pc = "parents",
                                    !.parents = ParentsOf(lineage, get_call.uid)]
    /\ UNCHANGED <<store_vars, last_call, scan_vars, side_vars, listener_vars, worker_vars>>

\* children = [... "SELECT child_uid FROM lineage WHERE parent_uid = ?" ...]; return
GetSelectChildren ==
    /\ get_call.pc = "parents"
    /\ LET children == ChildrenOf(lineage, get_call.uid) IN
        get_call' = [get_call EXCEPT
            !.pc = "returned", !.children = children,
            !.result = {Hydrate(r, get_call.parents, children) : r \in get_call.row}]
    /\ UNCHANGED <<store_vars, last_call, scan_vars, side_vars, listener_vars, worker_vars>>

\* A write commits while the get is between its first SELECT and its return
Observe ==
    get_call' = IF get_call.pc \in {"row", "parents"}
                THEN [get_call EXCEPT !.seen = @ \cup {Snapshot(lineage', get_call.uid)}]
                ELSE get_call

\* handle_api_post, path "records", given the record a GET /records/<uid> returned
ApiReRegister ==
    /\ WithinAudit
    /\ get_call.pc = "returned"
    /\ \E record \in get_call.result : ApiRegister(record)

(***************************************************************************)
(* The store is a file that outlives the process (CREATE TABLE IF NOT      *)
(* EXISTS): the registry opens on what earlier runs and POST /records      *)
(* calls left in it.  Here: one valid record per uid of the pool and any   *)
(* lineage of at most MaxEdges rows among them, cycles included (register  *)
(* accepts any parent_uids).                                               *)
(***************************************************************************)
InitialRows ==
    [i \in 1..3 |->
        LET u == CASE i = 1 -> <<"sour", 1>> [] i = 2 -> <<"sour", 2>>
                   [] OTHER -> <<"deri", 3>> IN
        Row(DataRecord(u, PathOf(u), IF u[1] = "deri" THEN "derived" ELSE "source",
                       "valid", 10, <<"sha256", 10, "d1">>, 0, 0, 1, {}, {}, {}))]

EdgeRows(pairs) ==
    {[parent_uid |-> p[1], child_uid |-> p[2], relationship |-> "derived_from",
      created_at |-> 0] : p \in pairs}

InitRegistry ==
    /\ data_records = InitialRows
    /\ lineage \in {EdgeRows(ps) : ps \in {s \in SUBSET (UidPool \X UidPool) :
                                              Cardinality(s) <= MaxEdges}}
    /\ audit_log = << >>
    /\ clock = 1
    /\ last_call = NoCall
    /\ get_call = NoGet
    /\ NoScanner
    /\ NoSide
    /\ NoListener
    /\ NoWorkers

NextRegistry ==
    \/ \E record \in RegisterInputs :
          WithinAudit /\ ApiRegister(record) /\ UNCHANGED <<get_call, scan_vars, side_vars, listener_vars, worker_vars>>
    \/ \E record \in RepathInputs :
          WithinAudit /\ ApiRegister(record) /\ UNCHANGED <<get_call, scan_vars, side_vars, listener_vars, worker_vars>>
    \/ \E uid \in UidPool :
          WithinAudit /\ ApiMarkStale(uid) /\ UNCHANGED <<get_call, scan_vars, side_vars, listener_vars, worker_vars>>
    \/ \E uid \in UidPool :
          WithinAudit /\ RemovalDelete(uid) /\ UNCHANGED <<get_call, scan_vars, side_vars, listener_vars, worker_vars>>

SpecRegistry == InitRegistry /\ [][NextRegistry]_vars

(***************************************************************************)
(* The registry on a store that can fail.  sqlite3 raises OperationalError *)
(* (disk full, database locked by another process, I/O error) out of any   *)
(* statement.  register, mark_stale and delete each run one transaction    *)
(* inside "with sqlite3.connect(...) as conn", whose exit rolls back on an *)
(* exception, and then call _audit, which opens a connection of its own    *)
(* after that transaction has been committed.  reply holds what the caller *)
(* got and the tables as they were when the call started.                  *)
(***************************************************************************)
MaxStorageClock == 3   \* calls on the failing store are explored while the clock is below this
MaxStorageEdges == 1   \* lineage rows found in the failing store when the process opens it

\* where the error comes: nowhere, out of a conn.execute of the transaction,
\* out of conn.commit(), or out of _audit's INSERT
StoragePoints == {"none", "execute", "commit", "audit"}

Tables(store) == <<store.data_records, store.lineage, store.audit_log>>

\* the store a call leaves: done when nothing failed, tx when _audit failed
\* after the commit, the store as it was when the transaction was rolled back
AfterStorageError(store, tx, done, at) ==
    CASE at = "none" -> done
      [] at = "audit" -> tx
      [] OTHER -> store

StorageReply(op, at) ==
    [op |-> "storage", asked |-> <<op, at>>, read |-> Tables(Store), result |-> << >>]

StorageFrame == UNCHANGED <<get_call, scan_vars, build_queue, touch_zones, listener_vars, worker_vars>>

StorageRegister(record, at) ==
    /\ clock < MaxStorageClock
    /\ Commit(AfterStorageError(Store, RegisterTx(Store, record),
                                register(Store, record), at))
    /\ last_call' = [op |-> "register", uid |-> record.uid, raised |-> at # "none",
                     updates |-> << >>, given |-> {record},
                     old_parents |-> ParentsOf(lineage, record.uid),
                     old_children |-> ChildrenOf(lineage, record.uid)]
    /\ reply' = StorageReply("register", at)
    /\ StorageFrame

StorageMarkStale(uid, at) ==
    /\ clock < MaxStorageClock
    /\ LET r == mark_stale(Store, uid) IN
        /\ Commit(IF r.raised THEN r.store
                  ELSE AfterStorageError(Store, MarkStaleTx(Store, r.updates),
                                         r.store, at))
        /\ last_call' = [op |-> "mark_stale", uid |-> uid,
                         raised |-> r.raised \/ at # "none",
                         updates |-> r.updates, given |-> {},
                         old_parents |-> {}, old_children |-> {}]
    /\ reply' = StorageReply("mark_stale", at)
    /\ StorageFrame

StorageDelete(uid, at) ==
    /\ clock < MaxStorageClock
    /\ uid \in {r.uid : r \in Rows(Store)}
    /\ Commit(AfterStorageError(Store, DeleteTx(Store, uid), delete(Store, uid), at))
    /\ last_call' = [op |-> "delete", uid |-> uid, raised |-> at # "none",
                     updates |-> << >>, given |-> {},
                     old_parents |-> ParentsOf(lineage, uid),
                     old_children |-> ChildrenOf(lineage, uid)]
    /\ reply' = StorageReply("delete", at)
    /\ StorageFrame

NextStorage ==
    \/ \E record \in RegisterInputs, at \in StoragePoints : StorageRegister(record, at)
    \/ \E uid \in UidPool, at \in StoragePoints : StorageMarkStale(uid, at)
    \/ \E uid \in UidPool, at \in StoragePoints : StorageDelete(uid, at)

\* the store the process opens: the three records and at most MaxStorageEdges
\* lineage rows among them
InitStorage ==
    /\ data_records = InitialRows
    /\ lineage \in {EdgeRows(ps) : ps \in {s \in SUBSET (UidPool \X UidPool) :
                                              Cardinality(s) <= MaxStorageEdges}}
    /\ audit_log = << >>
    /\ clock = 1
    /\ last_call = NoCall
    /\ get_call = NoGet
    /\ NoScanner
    /\ NoSide
    /\ NoListener
    /\ NoWorkers

SpecStorage == InitStorage /\ [][NextStorage]_vars

(***************************************************************************)
(* POST requests.  A request is the path it names and its body: a JSON     *)
(* object that is a whole record, an object with fields missing, a JSON    *)
(* list, bytes that are no JSON, no body at all, or a body announced by a  *)
(* Content-Length that is no number.  A response is its status and whether *)
(* its body is the error object of send_error_json; status 0 is no         *)
(* response: the handler's thread ended by an exception.                   *)
(***************************************************************************)
BodyKinds == {"record", "partial", "list", "malformed", "empty", "bad_length"}

PostBodies ==
    {[kind |-> "record", record |-> {record}] : record \in RegisterInputs}
        \cup {[kind |-> k, record |-> {}] : k \in BodyKinds \ {"record"}}

PostRoutes ==
    {<<"api", "records">>, <<"api", "nope">>, <<"static">>}
        \cup {<<"api", "records", uid, "stale">> : uid \in UidPool}

Response(status, error) == [status |-> status, error |-> error]

\* data = json.loads(body) if body else {}; except json.JSONDecodeError: data = {}
json_loads(body) ==
    IF body.kind \in {"malformed", "empty"} THEN [kind |-> "empty", record |-> {}]
    ELSE body

\* DataRecord.from_dict(data) returns a record or raises (KeyError, TypeError)
from_dict(data) == IF data.kind = "record" THEN data.record ELSE {}

\* F22APIHandler.handle_api_post: the routes that reach the registry, the
\* unknown endpoint, and "except Exception" around them all
handle_api_post(store, path, data) ==
    IF path = <<"api", "records">>
    THEN IF from_dict(data) = {}
         THEN [store |-> store, response |-> Response(500, TRUE)]
         ELSE [store |-> register(store, CHOOSE record \in from_dict(data) : TRUE),
               response |-> Response(200, FALSE)]
    ELSE IF Len(path) = 4
    THEN LET r == mark_stale(store, path[3]) IN
         [store |-> r.store,
          response |-> IF r.raised THEN Response(500, TRUE) ELSE Response(200, FALSE)]
    ELSE [store |-> store, response |-> Response(404, TRUE)]

\* F22APIHandler.do_POST
do_POST(store, path, body) ==
    IF path[1] # "api" THEN [store |-> store, response |-> Response(404, TRUE)]
    ELSE IF body.kind = "bad_length" THEN [store |-> store, response |-> Response(0, FALSE)]
    ELSE handle_api_post(store, path, json_loads(body))

\* one POST request, from its first line to its response
ApiPost(path, body) ==
    /\ WithinAudit
    /\ LET out == do_POST(Store, path, body) IN
        /\ Commit(out.store)
        /\ reply' = [op |-> "post", asked |-> <<path, body>>, read |-> Tables(Store),
                     result |-> <<out.response>>]
    /\ UNCHANGED <<last_call, get_call, scan_vars, build_queue, touch_zones,
                   listener_vars, worker_vars>>

NextApi == \E path \in PostRoutes, body \in PostBodies : ApiPost(path, body)

SpecApi == InitStorage /\ [][NextApi]_vars

\* A store with the chain sour_1 -> sour_2 -> deri_3
InitGet ==
    /\ data_records = InitialRows
    /\ lineage = EdgeRows({<<(<<"sour", 1>>), (<<"sour", 2>>)>>,
                           <<(<<"sour", 2>>), (<<"deri", 3>>)>>})
    /\ audit_log = << >>
    /\ clock = 1
    /\ last_call = NoCall
    /\ get_call = NoGet
    /\ NoScanner
    /\ NoSide
    /\ NoListener
    /\ NoWorkers

(***************************************************************************)
(* The registry with a reader: a get on one thread, the writers on others. *)
(***************************************************************************)
NextGet ==
    \/ \E record \in RegisterInputs :
          WithinAudit /\ ApiRegister(record) /\ Observe /\ UNCHANGED <<scan_vars, side_vars, listener_vars, worker_vars>>
    \/ ApiReRegister /\ Observe /\ UNCHANGED <<scan_vars, side_vars, listener_vars, worker_vars>>
    \/ \E uid \in UidPool :
          WithinAudit /\ ApiMarkStale(uid) /\ Observe /\ UNCHANGED <<scan_vars, side_vars, listener_vars, worker_vars>>
    \/ \E uid \in UidPool :
          WithinAudit /\ RemovalDelete(uid) /\ Observe /\ UNCHANGED <<scan_vars, side_vars, listener_vars, worker_vars>>
    \/ \E uid \in UidPool : GetSelectRow(uid)
    \/ GetSelectParents
    \/ GetSelectChildren

SpecGet == InitGet /\ [][NextGet]_vars

(***************************************************************************)
(* The scanner and its surroundings.  One scan pass at a time runs on the  *)
(* scanner thread: walk_all, then the body of the loop once per file, in   *)
(* whatever order rglob yielded them, then query and the removal loop,     *)
(* then the return.  Between passes files are written and removed and      *)
(* POST requests reach the registry.  hist remembers the tree the last     *)
(* completed pass walked, and, while a pass runs, the tree it walked and   *)
(* the rows and lineage it started from.                                   *)
(***************************************************************************)
\* files = self.fs.walk_all(); stats = {...}; seen_paths = set()
ScanStart ==
    /\ scan.pc = "idle"
    /\ hist.done < MaxPasses
    /\ scan' = [IdleScan EXCEPT !.pc = "files", !.files = walk_all(fs)]
    /\ hist' = [hist EXCEPT !.walked = fs, !.start_rows = data_records,
                            !.start_lineage = lineage]
    /\ UNCHANGED <<store_vars, last_call, get_call, fs, uid_seq, side_vars, listener_vars, worker_vars>>

\* an exception in the body ending the loop
RemainingFilesAbort(files, rel, raised) == IF raised THEN {} ELSE files \ {rel}

\* "for path in files" goes on with the next path, "except Exception" included
RemainingFiles(files, rel, raised) == files \ {rel}

\* one turn of "for path in files"
ScanFile(rel) ==
    /\ scan.pc = "files"
    /\ rel \in scan.files
    /\ LET r == scan_file(Store, scan.stats, rel, fs[rel], uid_seq) IN
        /\ Commit(r.store)
        /\ uid_seq' = r.uid_seq
        /\ scan' = [scan EXCEPT !.files = RemainingFiles(@, rel,
                                              r.stats.errors > scan.stats.errors),
                                !.seen_paths = @ \cup {rel},
                                !.stats = r.stats]
    /\ UNCHANGED <<last_call, get_call, fs, hist, side_vars, listener_vars, worker_vars>>

\* the removal phase starting whatever is left to upsert
LoopOverAlways == TRUE

\* "for path in files" has run out of paths
LoopOver == scan.files = {}

\* all_records = self.registry.query(limit=100000)
ScanQuery ==
    /\ scan.pc = "files"
    /\ LoopOver
    /\ scan' = [scan EXCEPT !.pc = "removal", !.all_records = query(Store, 100000)]
    /\ UNCHANGED <<store_vars, last_call, get_call, fs, uid_seq, hist, side_vars, listener_vars, worker_vars>>

\* one turn of "for record in all_records"
ScanRemoval ==
    /\ scan.pc = "removal"
    /\ scan.all_records # << >>
    /\ LET record == Head(scan.all_records) IN
        IF Unobserved(record, scan.seen_paths)
        THEN /\ Commit(delete(Store, record.uid))
             /\ scan' = [scan EXCEPT !.all_records = Tail(@),
                                     !.stats = Bump(@, "removed")]
        ELSE /\ scan' = [scan EXCEPT !.all_records = Tail(@)]
             /\ UNCHANGED store_vars
    /\ UNCHANGED <<last_call, get_call, fs, uid_seq, hist, side_vars, listener_vars, worker_vars>>

\* the pass has done all its work and is about to return stats
PassComplete == scan.pc = "removal" /\ scan.all_records = << >>

\* return stats
ScanReturn ==
    /\ PassComplete
    /\ scan' = IdleScan
    /\ hist' = [hist EXCEPT !.done = @ + 1, !.last_tree = hist.walked,
                            !.walked = NoTree, !.start_rows = << >>,
                            !.start_lineage = {}]
    /\ UNCHANGED <<store_vars, last_call, get_call, fs, uid_seq, side_vars, listener_vars, worker_vars>>

\* a file is written, new or over the one that was there
FsWrite(rel, file) ==
    /\ scan.pc = "idle"
    /\ hist.done >= 1
    /\ hist.env_ops < MaxEnvOps
    /\ fs[rel] # {file}
    /\ fs' = [fs EXCEPT ![rel] = {file}]
    /\ hist' = [hist EXCEPT !.env_ops = @ + 1]
    /\ UNCHANGED <<store_vars, last_call, get_call, scan, uid_seq, side_vars, listener_vars, worker_vars>>

\* a file is removed
FsRemove(rel) ==
    /\ scan.pc = "idle"
    /\ hist.done >= 1
    /\ hist.env_ops < MaxEnvOps
    /\ fs[rel] # {}
    /\ fs' = [fs EXCEPT ![rel] = {}]
    /\ hist' = [hist EXCEPT !.env_ops = @ + 1]
    /\ UNCHANGED <<store_vars, last_call, get_call, scan, uid_seq, side_vars, listener_vars, worker_vars>>

\* handle_api_post, path "records", given a record of the registry with the
\* parents the caller derives it from
ApiLink(uid, parents) ==
    /\ scan.pc = "idle"
    /\ hist.env_ops < MaxEnvOps
    /\ parents \subseteq {r.uid : r \in Rows(Store)}
    /\ \E record \in get(Store, uid) :
          ApiRegister([record EXCEPT !.parent_uids = parents])
    /\ hist' = [hist EXCEPT !.env_ops = @ + 1]
    /\ UNCHANGED <<get_call, fs, scan, uid_seq, side_vars, listener_vars, worker_vars>>

\* handle_api_post, path "records/<uid>/stale", between passes
ApiStale(uid) ==
    /\ scan.pc = "idle"
    /\ hist.env_ops < MaxEnvOps
    /\ ApiMarkStale(uid)
    /\ hist' = [hist EXCEPT !.env_ops = @ + 1]
    /\ UNCHANGED <<get_call, fs, scan, uid_seq, side_vars, listener_vars, worker_vars>>

\* The process starts on a tree of files it has never scanned, with a new store
Trees == {t \in [TreePaths -> SUBSET FileContents] :
            \A p \in TreePaths : Cardinality(t[p]) <= 1}

InitScan ==
    /\ data_records = << >>
    /\ lineage = {}
    /\ audit_log = << >>
    /\ clock = 1
    /\ last_call = NoCall
    /\ get_call = NoGet
    /\ fs \in Trees
    /\ scan = IdleScan
    /\ uid_seq = 0
    /\ hist = NoHist
    /\ NoSide
    /\ NoListener
    /\ NoWorkers


NextScan ==
    \/ ScanStart
    \/ \E rel \in TreePaths : ScanFile(rel)
    \/ ScanQuery
    \/ ScanRemoval
    \/ ScanReturn
    \/ \E rel \in TreePaths, file \in FileContents : FsWrite(rel, file)
    \/ \E rel \in TreePaths : FsRemove(rel)
    \/ \E uid \in LiveUids, parents \in SUBSET LiveUids : ApiLink(uid, parents)
    \/ \E uid \in LiveUids : ApiStale(uid)

SpecScan == InitScan /\ [][NextScan]_vars

(***************************************************************************)
(* A scan pass as a function of the order in which rglob yields the files: *)
(* the loop over the files in that order, the query, the removal loop.     *)
(***************************************************************************)
Orders(files) ==
    {o \in [1..Cardinality(files) -> files] : \A i, j \in DOMAIN o : o[i] = o[j] => i = j}

\* "for path in files", from the i-th path of the order on
RECURSIVE ScanFiles(_, _, _, _, _, _)
ScanFiles(store, stats, tree, order, i, n) ==
    IF i > Len(order) THEN [store |-> store, stats |-> stats, uid_seq |-> n]
    ELSE LET r == scan_file(store, stats, order[i], tree[order[i]], n) IN
         ScanFiles(r.store, r.stats, tree, order, i + 1, r.uid_seq)

\* "for record in all_records", from the i-th record on
RECURSIVE ScanRemovals(_, _, _, _, _)
ScanRemovals(store, stats, all_records, seen_paths, i) ==
    IF i > Len(all_records) THEN [store |-> store, stats |-> stats]
    ELSE IF Unobserved(all_records[i], seen_paths)
         THEN ScanRemovals(delete(store, all_records[i].uid), Bump(stats, "removed"),
                           all_records, seen_paths, i + 1)
         ELSE ScanRemovals(store, stats, all_records, seen_paths, i + 1)

\* DataScanner.scan, whole
scan_pass(store, tree, order, n) ==
    LET upserted == ScanFiles(store, ZeroStats, tree, order, 1, n)
        removed == ScanRemovals(upserted.store, upserted.stats,
                                query(upserted.store, 100000),
                                {order[i] : i \in DOMAIN order}, 1)
    IN [store |-> removed.store, stats |-> removed.stats, uid_seq |-> upserted.uid_seq]

Statuses(store) == {<<r.path, r.status>> : r \in Rows(store)}

\* one pass, run in the order rglob gave, next to the same pass in another order
ScanInOrder(order, other) ==
    /\ hist.done < MaxPasses
    /\ LET ran == scan_pass(Store, fs, order, uid_seq) IN
        /\ Commit(ran.store)
        /\ uid_seq' = ran.uid_seq
        /\ reply' = [op |-> "scan", asked |-> <<order, other>>,
                     read |-> <<Statuses(scan_pass(Store, fs, other, uid_seq).store)>>,
                     result |-> <<Statuses(ran.store)>>]
    /\ hist' = [hist EXCEPT !.done = @ + 1]
    /\ UNCHANGED <<last_call, get_call, fs, scan, build_queue, touch_zones,
                   listener_vars, worker_vars>>

\* the store the process opens, lineage included, and the tree it finds
InitOrder ==
    /\ data_records = InitialRows
    /\ lineage \in {EdgeRows(ps) : ps \in {s \in SUBSET (UidPool \X UidPool) :
                                              Cardinality(s) <= MaxOrderEdges}}
    /\ audit_log = << >>
    /\ clock = 1
    /\ last_call = NoCall
    /\ get_call = NoGet
    /\ fs \in Trees
    /\ scan = IdleScan
    /\ uid_seq = 0
    /\ hist = NoHist
    /\ NoSide
    /\ NoListener
    /\ NoWorkers

NextOrder == \E order \in Orders(walk_all(fs)), other \in Orders(walk_all(fs)) :
                ScanInOrder(order, other)

SpecOrder == InitOrder /\ [][NextOrder]_vars

\* a file that walk_all has listed is gone before the loop reaches it:
\* path.stat() raises
FsVanish(rel) ==
    /\ scan.pc = "files"
    /\ rel \in scan.files
    /\ hist.env_ops < MaxEnvOps
    /\ fs[rel] # {}
    /\ fs' = [fs EXCEPT ![rel] = {}]
    /\ hist' = [hist EXCEPT !.env_ops = @ + 1]
    /\ UNCHANGED <<store_vars, last_call, get_call, scan, uid_seq, side_vars, listener_vars, worker_vars>>

NextScanErrors ==
    \/ NextScan
    \/ \E rel \in TreePaths : FsVanish(rel)

\* the scanner with files that vanish during a pass
SpecScanErrors == InitScan /\ [][NextScanErrors]_vars

(***************************************************************************)
(* Two scan passes at once.  The watcher thread calls scan() every         *)
(* scan_interval_seconds, and POST /scan calls the same scan() on the      *)
(* thread of its request; scan() takes no lock, so the turns of the two    *)
(* passes interleave.  post_scan is the pass of the request: its own       *)
(* files, seen_paths, stats and all_records, over the one registry.        *)
(* Meanwhile files are created at paths the registry has no record of.     *)
(***************************************************************************)
\* handle_api_post, path "scan": files = self.fs.walk_all(); ...
PostScanStart ==
    /\ post_scan.pc = "idle"
    /\ hist.env_ops < MaxEnvOps
    /\ post_scan' = [IdleScan EXCEPT !.pc = "files", !.files = walk_all(fs)]
    /\ hist' = [hist EXCEPT !.env_ops = @ + 1]
    /\ UNCHANGED <<store_vars, last_call, get_call, fs, scan, uid_seq, side_vars,
                   listener_vars, loops>>

\* one turn of "for path in files" of the request's pass
PostScanFile(rel) ==
    /\ post_scan.pc = "files"
    /\ rel \in post_scan.files
    /\ LET r == scan_file(Store, post_scan.stats, rel, fs[rel], uid_seq) IN
        /\ Commit(r.store)
        /\ uid_seq' = r.uid_seq
        /\ post_scan' = [post_scan EXCEPT
                             !.files = RemainingFiles(@, rel,
                                           r.stats.errors > post_scan.stats.errors),
                             !.seen_paths = @ \cup {rel},
                             !.stats = r.stats]
    /\ UNCHANGED <<last_call, get_call, fs, scan, hist, side_vars, listener_vars, loops>>

\* all_records = self.registry.query(limit=100000), of the request's pass
PostScanQuery ==
    /\ post_scan.pc = "files"
    /\ post_scan.files = {}
    /\ post_scan' = [post_scan EXCEPT !.pc = "removal",
                                      !.all_records = query(Store, 100000)]
    /\ UNCHANGED <<store_vars, last_call, get_call, scan_vars, side_vars,
                   listener_vars, loops>>

\* one turn of "for record in all_records" of the request's pass
PostScanRemoval ==
    /\ post_scan.pc = "removal"
    /\ post_scan.all_records # << >>
    /\ LET record == Head(post_scan.all_records) IN
        IF Unobserved(record, post_scan.seen_paths)
        THEN /\ Commit(delete(Store, record.uid))
             /\ post_scan' = [post_scan EXCEPT !.all_records = Tail(@),
                                               !.stats = Bump(@, "removed")]
        ELSE /\ post_scan' = [post_scan EXCEPT !.all_records = Tail(@)]
             /\ UNCHANGED store_vars
    /\ UNCHANGED <<last_call, get_call, scan_vars, side_vars, listener_vars, loops>>

\* self.send_json({"status": "ok", "stats": stats})
PostScanReturn ==
    /\ post_scan.pc = "removal"
    /\ post_scan.all_records = << >>
    /\ post_scan' = IdleScan
    /\ UNCHANGED <<store_vars, last_call, get_call, scan_vars, side_vars,
                   listener_vars, loops>>

\* a file is created at a path that has neither a file nor a record, while
\* a pass runs
FsCreate(rel, file) ==
    /\ scan.pc # "idle" \/ post_scan.pc # "idle"
    /\ hist.env_ops < MaxEnvOps
    /\ fs[rel] = {}
    /\ \A r \in Rows(Store) : r.path # rel
    /\ fs' = [fs EXCEPT ![rel] = {file}]
    /\ hist' = [hist EXCEPT !.env_ops = @ + 1]
    /\ UNCHANGED <<store_vars, last_call, get_call, scan, uid_seq, side_vars,
                   listener_vars, worker_vars>>

NextTwoScans ==
    \/ ScanStart
    \/ \E rel \in TreePaths : ScanFile(rel)
    \/ ScanQuery
    \/ ScanRemoval
    \/ ScanReturn
    \/ PostScanStart
    \/ \E rel \in TreePaths : PostScanFile(rel)
    \/ PostScanQuery
    \/ PostScanRemoval
    \/ PostScanReturn
    \/ \E rel \in TreePaths, file \in FileContents : FsCreate(rel, file)

SpecTwoScans == InitScan /\ [][NextTwoScans]_vars

(***************************************************************************)
(* The build queue.  NULL in a timestamp column is 0, NULL in              *)
(* error_message is the empty string.  No code of the repository calls     *)
(* queue_build or update_build_status: they are the registry's interface   *)
(* for the scanner and for the external builder.                           *)
(***************************************************************************)
MaxBuilds == 3      \* build jobs queued in one run
MaxBuildClock == 4  \* queue and status calls are explored while the clock is below this

\* DataRegistry.queue_build: INSERT INTO build_queue, id from AUTOINCREMENT,
\* status from its DEFAULT 'pending'
queue_build(queue, source_uid, target_path, builder_name, priority, now) ==
    Append(queue, [id |-> Len(queue) + 1, source_uid |-> source_uid,
                   target_path |-> target_path, builder_name |-> builder_name,
                   priority |-> priority, status |-> "pending",
                   created_at |-> now, started_at |-> 0, completed_at |-> 0,
                   error_message |-> ""])

\* DataRegistry.update_build_status: one UPDATE ... WHERE id = ?
update_build_status(queue, build_id, status, error, now) ==
    [i \in 1..Len(queue) |->
        IF queue[i].id # build_id THEN queue[i]
        ELSE IF status = "running"
             THEN [queue[i] EXCEPT !.status = status, !.started_at = now]
        ELSE IF status \in {"completed", "failed"}
             THEN [queue[i] EXCEPT !.status = status, !.completed_at = now,
                                   !.error_message = error]
        ELSE [queue[i] EXCEPT !.status = status]]

\* ORDER BY priority DESC, created_at ASC: job a sorts before job b
BeforePriorityAscending(a, b) ==
    \/ a.priority < b.priority
    \/ a.priority = b.priority /\ a.created_at < b.created_at

Before(a, b) ==
    \/ a.priority > b.priority
    \/ a.priority = b.priority /\ a.created_at < b.created_at

\* the sort of the ORDER BY; rows that compare equal stay in id order
RECURSIVE InsertJob(_, _)
InsertJob(job, sorted) ==
    IF sorted = << >> THEN <<job>>
    ELSE IF Before(job, Head(sorted)) THEN <<job>> \o sorted
    ELSE <<Head(sorted)>> \o InsertJob(job, Tail(sorted))

RECURSIVE OrderJobs(_)
OrderJobs(jobs) ==
    IF jobs = << >> THEN << >>
    ELSE InsertJob(jobs[Len(jobs)], OrderJobs(SubSeq(jobs, 1, Len(jobs) - 1)))

\* DataRegistry.get_pending_builds
get_pending_builds(queue) ==
    OrderJobs(SelectSeq(queue, LAMBDA job : job.status = "pending"))

\* a caller queues the rebuild of the export from one of the sources
QueueBuild(source_uid, priority, tick) ==
    /\ reply = NoReply
    /\ Len(build_queue) < MaxBuilds
    /\ clock < MaxBuildClock
    /\ build_queue' = queue_build(build_queue, source_uid, PathOf(<<"deri", 3>>),
                                  "export", priority, clock)
    /\ clock' = clock + tick
    /\ UNCHANGED <<data_records, lineage, audit_log, last_call, get_call, listener_vars, worker_vars,
                   scan_vars, touch_zones, reply>>

\* the external builder reports on a job
UpdateBuildStatus(build_id, status) ==
    /\ reply = NoReply
    /\ clock < MaxBuildClock
    /\ build_queue' = update_build_status(build_queue, build_id, status,
                          IF status = "failed" THEN "builder failed" ELSE "", clock)
    /\ clock' = clock + 1
    /\ UNCHANGED <<data_records, lineage, audit_log, last_call, get_call, listener_vars, worker_vars,
                   scan_vars, touch_zones, reply>>

\* handle_api_get, path "builds"; the read is the last call of a run
GetPendingBuilds ==
    /\ reply = NoReply
    /\ reply' = [op |-> "get_pending_builds", asked |-> << >>,
                 read |-> build_queue, result |-> get_pending_builds(build_queue)]
    /\ UNCHANGED <<store_vars, last_call, get_call, listener_vars, worker_vars, scan_vars, build_queue,
                   touch_zones>>

InitBuilds ==
    /\ data_records = InitialRows
    /\ lineage = {}
    /\ audit_log = << >>
    /\ clock = 1
    /\ last_call = NoCall
    /\ get_call = NoGet
    /\ NoScanner
    /\ NoSide
    /\ NoListener
    /\ NoWorkers

NextBuilds ==
    \/ \E priority \in {0, 1}, tick \in {0, 1} :
          QueueBuild(<<"sour", 1>>, priority, tick)
    \/ \E build_id \in 1..Len(build_queue),
          status \in {"running", "completed", "failed"} :
          UpdateBuildStatus(build_id, status)
    \/ GetPendingBuilds

SpecBuilds == InitBuilds /\ [][NextBuilds]_vars

(***************************************************************************)
(* GET /records: the filters and the limit of the query string reach       *)
(* DataRegistry.query as they are; limit is int(...) of the parameter, any *)
(* integer.  The store holds up to three records of the pool, each valid   *)
(* or stale.                                                               *)
(***************************************************************************)
QueryLimits == {-1, 0, 1, 2, 100}

QueryStores ==
    {[i \in 1..n |-> [InitialRows[i] EXCEPT !.status = st[i]]] :
        n \in 0..3, st \in [1..3 -> {"valid", "stale"}]}

\* handle_api_get, path "records"
ApiQuery(category, status, prefix, limit) ==
    /\ reply = NoReply
    /\ reply' = [op |-> "query",
                 asked |-> [category |-> category, status |-> status,
                            prefix |-> prefix, limit |-> limit],
                 read |-> data_records,
                 result |-> query_where(Store, category, status, prefix, limit)]
    /\ UNCHANGED <<store_vars, last_call, get_call, listener_vars, worker_vars, scan_vars, build_queue,
                   touch_zones>>

InitQuery ==
    /\ data_records \in QueryStores
    /\ lineage = {}
    /\ audit_log = << >>
    /\ clock = 1
    /\ last_call = NoCall
    /\ get_call = NoGet
    /\ NoScanner
    /\ NoSide
    /\ NoListener
    /\ NoWorkers

NextQuery ==
    \E category \in {{}, {"source"}, {"derived"}}, status \in {{}, {"valid"}, {"stale"}},
       prefix \in {{}, {<<"data", "sources">>}}, limit \in QueryLimits :
        ApiQuery(category, status, prefix, limit)

SpecQuery == InitQuery /\ [][NextQuery]_vars

(***************************************************************************)
(* Touch zones.  A colour code is a string, here the sequence of its       *)
(* characters; the table keeps color_hex as it was posted.                 *)
(***************************************************************************)
MaxColorLen == 2

ColorChars == {"a", "A", "1", "#"}

ColorCodes == UNION {[1..n -> ColorChars] : n \in 1..MaxColorLen}

ZoneUids == {"zone_1", "zone_2"}

\* str.upper and SQL UPPER on one character
UpperChar(ch) == IF ch = "a" THEN "A" ELSE ch

upper(str) == [i \in 1..Len(str) |-> UpperChar(str[i])]

\* str.replace("#", "") and SQL REPLACE(color_hex, '#', ''): every '#' goes
replace_hash(str) == SelectSeq(str, LAMBDA ch : ch # "#")

TouchZone(uid, color_hex) ==
    [uid |-> uid, component_uid |-> "comp_1", label |-> "panel",
     color_hex |-> color_hex, vertices |-> << >>, center_x |-> 0,
     center_y |-> 0, area |-> 0, metadata |-> {}]

\* INSERT OR REPLACE INTO touch_zones: the row of the same uid goes, the new
\* row is the last
add_touch_zone(zones, zone) ==
    SelectSeq(zones, LAMBDA z : z.uid # zone.uid) \o <<zone>>

\* the key as Python normalises it without upper-casing
KeyColorNoUpper(color_hex) == replace_hash(color_hex)

\* color_hex.upper().replace("#", "")
KeyColor(color_hex) == replace_hash(upper(color_hex))

\* UPPER(REPLACE(color_hex, '#', ''))
RowColor(color_hex) == upper(replace_hash(color_hex))

\* get_touch_zone_by_color: fetchone, the first matching row or None
get_touch_zone_by_color(zones, color_hex) ==
    LET rows == SelectSeq(zones, LAMBDA z : RowColor(z.color_hex) = KeyColor(color_hex))
    IN IF rows = << >> THEN {} ELSE {rows[1]}

\* handle_api_post, path "touch_zones"
AddTouchZone(uid, color_hex) ==
    /\ reply = NoReply
    /\ touch_zones' = add_touch_zone(touch_zones, TouchZone(uid, color_hex))
    /\ UNCHANGED <<store_vars, last_call, get_call, listener_vars, worker_vars, scan_vars, build_queue, reply>>

\* handle_api_get, path "touch_zones/lookup"
LookupZone(color_hex) ==
    /\ reply = NoReply
    /\ reply' = [op |-> "lookup", asked |-> color_hex, read |-> touch_zones,
                 result |-> get_touch_zone_by_color(touch_zones, color_hex)]
    /\ UNCHANGED <<store_vars, last_call, get_call, listener_vars, worker_vars, scan_vars, build_queue,
                   touch_zones>>

InitZones ==
    /\ data_records = InitialRows
    /\ lineage = {}
    /\ audit_log = << >>
    /\ clock = 1
    /\ last_call = NoCall
    /\ get_call = NoGet
    /\ NoScanner
    /\ NoSide
    /\ NoListener
    /\ NoWorkers

NextZones ==
    \/ \E uid \in ZoneUids, color_hex \in ColorCodes : AddTouchZone(uid, color_hex)
    \/ \E color_hex \in ColorCodes : LookupZone(color_hex)

SpecZones == InitZones /\ [][NextZones]_vars

(***************************************************************************)
(* The supervised listener: F22DataManager.start, the supervisor thread it *)
(* launches, the listener control calls and the thread of each server      *)
(* object.  The threads share the manager's attributes without a lock,     *)
(* except that _start_server is called under _server_lock; each step reads *)
(* or writes them once.                                                    *)
(***************************************************************************)
MaxCalls == 2

MaxCrashes == 1

MaxBindFailures == 1

max_delay == 15

\* ThreadedHTTPServer((host, port), handler): bound, serve_forever not started
NewServer == [closed |-> FALSE, shutdown_request |-> FALSE, thread |-> "none"]

\* t and t.is_alive()
is_alive(t) == t # NoThread /\ servers[t].thread = "alive"

\* the listener is bound and its worker runs serve_forever
Serving == is_alive(server_thread) /\ ~servers[server_thread].closed

ListenerFrame == UNCHANGED <<store_vars, last_call, get_call, scan_vars, side_vars, worker_vars>>

\* the daemon threads run while main() has not returned
Running == main.pc = "running"

\* _start_server, line 1584: the bind succeeds
BindOk ==
    /\ servers' = Append(servers, NewServer)
    /\ server' = Len(servers) + 1
    /\ UNCHANGED <<server_thread, budget>>

\* _start_server, lines 1584 and 1588-1592: the bind raises
BindFails ==
    /\ budget.bind_failures < MaxBindFailures
    /\ budget' = [budget EXCEPT !.bind_failures = @ + 1]
    /\ server' = NoServer
    /\ server_thread' = NoThread
    /\ UNCHANGED servers

\* _start_server, lines 1585-1586: the thread of self.server is made and started
SpawnOk ==
    /\ server # NoServer
    /\ servers' = [servers EXCEPT ![server].thread = "alive"]
    /\ server_thread' = server
    /\ UNCHANGED <<server, budget>>

\* _start_server, lines 1585 and 1588-1592: self.server is None by now
SpawnFails ==
    /\ server = NoServer
    /\ server' = NoServer
    /\ server_thread' = NoThread
    /\ UNCHANGED <<servers, budget>>

\* restart_delay after a failed attempt, keeping the delay as it is
BackoffKeep(restart_delay) == restart_delay

\* restart_delay = min(max_delay, restart_delay * 2)
Backoff(restart_delay) ==
    IF restart_delay * 2 < max_delay THEN restart_delay * 2 ELSE max_delay

\* start(), lines 1472-1474 and 1601-1604: the first bind, under the lock
MainBind ==
    /\ main.pc = "start"
    /\ \/ BindOk /\ main' = [main EXCEPT !.pc = "bound"]
       \/ BindFails /\ main' = [main EXCEPT !.pc = "failed", !.start_failed = TRUE]
    /\ UNCHANGED <<server_enabled, stop_event, server_lock, supervisor, control>>
    /\ ListenerFrame

\* lines 1585-1586, 1666 and 1486-1505: the first worker, the supervisor, the
\* timers, then the blocking loop
MainSpawn ==
    /\ main.pc = "bound"
    /\ SpawnOk
    /\ supervisor' = [IdleSupervisor EXCEPT !.pc = "top"]
    /\ main' = [main EXCEPT !.pc = "running", !.timers = "running"]
    /\ UNCHANGED <<server_enabled, stop_event, server_lock, control>>
    /\ ListenerFrame

\* lines 1475-1482 and 2302-2303: start() returns and main() with it
MainReturn ==
    /\ main.pc = "failed"
    /\ main' = [main EXCEPT !.pc = "exited"]
    /\ UNCHANGED <<server, server_thread, server_enabled, stop_event, server_lock,
                   servers, supervisor, control, budget>>
    /\ ListenerFrame

\* lines 1505-1509: the blocking loop ends once _stop_event is set
MainLoopExit ==
    /\ Running
    /\ stop_event
    /\ main' = [main EXCEPT !.pc = "exited"]
    /\ UNCHANGED <<server, server_thread, server_enabled, stop_event, server_lock,
                   servers, supervisor, control, budget>>
    /\ ListenerFrame

\* watcher_loop and health_loop, lines 1673-1676 and 1691-1694
TimersExit ==
    /\ Running
    /\ main.timers = "running"
    /\ stop_event
    /\ main' = [main EXCEPT !.timers = "stopped"]
    /\ UNCHANGED <<server, server_thread, server_enabled, stop_event, server_lock,
                   servers, supervisor, control, budget>>
    /\ ListenerFrame

\* supervisor_loop, lines 1615-1622
SupTop ==
    /\ Running
    /\ supervisor.pc = "top"
    /\ supervisor' =
          IF stop_event THEN [supervisor EXCEPT !.pc = "done"]
          ELSE IF ~server_enabled THEN supervisor
          ELSE IF server_thread = NoThread THEN [supervisor EXCEPT !.t = NoThread]
          ELSE [supervisor EXCEPT !.t = server_thread, !.pc = "join"]
    /\ UNCHANGED <<server, server_thread, server_enabled, stop_event, server_lock,
                   servers, control, main, budget>>
    /\ ListenerFrame

\* lines 1625-1632: t.join(timeout=1.0), then the two tests
SupJoin ==
    /\ Running
    /\ supervisor.pc = "join"
    /\ supervisor' =
          IF stop_event THEN [supervisor EXCEPT !.pc = "done"]
          ELSE IF is_alive(supervisor.t) THEN [supervisor EXCEPT !.pc = "top"]
          ELSE [supervisor EXCEPT !.pc = "died"]
    /\ UNCHANGED <<server, server_thread, server_enabled, stop_event, server_lock,
                   servers, control, main, budget>>
    /\ ListenerFrame

\* lines 1635-1644
SupDied ==
    /\ Running
    /\ supervisor.pc = "died"
    /\ supervisor' =
          IF ~server_enabled THEN [supervisor EXCEPT !.pc = "top"]
          ELSE IF server_thread # supervisor.t /\ is_alive(server_thread)
               THEN [supervisor EXCEPT !.pc = "top", !.restart_delay = 1]
          ELSE [supervisor EXCEPT !.pc = "backoff"]
    /\ UNCHANGED <<server, server_thread, server_enabled, stop_event, server_lock,
                   servers, control, main, budget>>
    /\ ListenerFrame

\* lines 1645-1647: time.sleep(restart_delay) is over
SupBackoff ==
    /\ Running
    /\ supervisor.pc = "backoff"
    /\ supervisor' = [supervisor EXCEPT !.pc = IF stop_event THEN "done" ELSE "cleanup"]
    /\ UNCHANGED <<server, server_thread, server_enabled, stop_event, server_lock,
                   servers, control, main, budget>>
    /\ ListenerFrame

\* lines 1651-1656: best-effort cleanup of the old server object
SupCleanup ==
    /\ Running
    /\ supervisor.pc = "cleanup"
    /\ servers' = IF server # NoServer THEN [servers EXCEPT ![server].closed = TRUE]
                  ELSE servers
    /\ server' = NoServer
    /\ supervisor' = [supervisor EXCEPT !.pc = "lock"]
    /\ UNCHANGED <<server_thread, server_enabled, stop_event, server_lock, control,
                   main, budget>>
    /\ ListenerFrame

\* line 1658: with self._server_lock
SupLock ==
    /\ Running
    /\ supervisor.pc = "lock"
    /\ server_lock = "free"
    /\ server_lock' = "supervisor"
    /\ supervisor' = [supervisor EXCEPT !.pc = "bind"]
    /\ UNCHANGED <<server, server_thread, server_enabled, stop_event, servers,
                   control, main, budget>>
    /\ ListenerFrame

\* lines 1659 and 1661-1663: the bind of the restart
SupBind ==
    /\ Running
    /\ supervisor.pc = "bind"
    /\ \/ /\ BindOk
          /\ supervisor' = [supervisor EXCEPT !.pc = "spawn"]
          /\ UNCHANGED server_lock
       \/ /\ BindFails
          /\ supervisor' = [supervisor EXCEPT !.pc = "top",
                               !.restart_delay = Backoff(@)]
          /\ server_lock' = "free"
    /\ UNCHANGED <<server_enabled, stop_event, control, main>>
    /\ ListenerFrame

\* lines 1659-1663: the worker of the restart
SupSpawn ==
    /\ Running
    /\ supervisor.pc = "spawn"
    /\ \/ SpawnOk /\ supervisor' = [supervisor EXCEPT !.pc = "top", !.restart_delay = 1]
       \/ SpawnFails /\ supervisor' = [supervisor EXCEPT !.pc = "top",
                                          !.restart_delay = Backoff(@)]
    /\ server_lock' = "free"
    /\ UNCHANGED <<server_enabled, stop_event, control, main>>
    /\ ListenerFrame

Supervisor ==
    \/ SupTop
    \/ SupJoin
    \/ SupDied
    \/ SupBackoff
    \/ SupCleanup
    \/ SupLock
    \/ SupBind
    \/ SupSpawn

\* start_http_server, stop_http_server, restart_http_server or stop is called
\* on a thread of its own (request_server_stop, request_server_restart, a
\* request handler, the signal handler)
Call(op) ==
    /\ Running
    /\ control = IdleControl
    /\ budget.calls < MaxCalls
    /\ budget' = [budget EXCEPT !.calls = @ + 1]
    /\ control' = [op |-> op, pc |-> "flag", g |-> NoServer]
    /\ UNCHANGED <<server, server_thread, server_enabled, stop_event, server_lock,
                   servers, supervisor, main>>
    /\ ListenerFrame

\* lines 1528, 1539, 1550 and 1514: the first statement of the call
CtlFlag ==
    /\ Running
    /\ control.pc = "flag"
    /\ server_enabled' = IF control.op \in {"start", "restart"} THEN TRUE
                         ELSE IF control.op = "stop" THEN FALSE
                         ELSE server_enabled
    /\ stop_event' = IF control.op = "shutdown" THEN TRUE ELSE stop_event
    /\ control' = [control EXCEPT !.pc = IF control.op = "start" THEN "check" ELSE "test"]
    /\ UNCHANGED <<server, server_thread, server_lock, servers, supervisor, main, budget>>
    /\ ListenerFrame

\* lines 1540, 1551 and 1516: if self.server
CtlTest ==
    /\ Running
    /\ control.pc = "test"
    /\ control' = [control EXCEPT !.pc = IF server # NoServer THEN "shutdown" ELSE "done"]
    /\ UNCHANGED <<server, server_thread, server_enabled, stop_event, server_lock,
                   servers, supervisor, main, budget>>
    /\ ListenerFrame

\* lines 1541, 1552 and 1517: self.server.shutdown() sets the request; with
\* self.server None by now the call raises AttributeError
CtlShutdown ==
    /\ Running
    /\ control.pc = "shutdown"
    /\ IF server = NoServer
       THEN /\ control' = [control EXCEPT !.pc = "raised"]
            /\ UNCHANGED servers
       ELSE /\ servers' = [servers EXCEPT ![server].shutdown_request = TRUE]
            /\ control' = [control EXCEPT !.pc = "wait", !.g = server]
    /\ UNCHANGED <<server, server_thread, server_enabled, stop_event, server_lock,
                   supervisor, main, budget>>
    /\ ListenerFrame

\* BaseServer.__is_shut_down: set when serve_forever has ended
is_shut_down(g) == servers[g].thread = "dead"

\* BaseServer.shutdown: self.__is_shut_down.wait()
CtlWait ==
    /\ Running
    /\ control.pc = "wait"
    /\ is_shut_down(control.g)
    /\ control' = [control EXCEPT !.pc = "close"]
    /\ UNCHANGED <<server, server_thread, server_enabled, stop_event, server_lock,
                   servers, supervisor, main, budget>>
    /\ ListenerFrame

\* lines 1542-1545: try self.server.server_close(), any exception passed over
CtlClose ==
    /\ Running
    /\ control.pc = "close"
    /\ servers' = IF server # NoServer THEN [servers EXCEPT ![server].closed = TRUE]
                  ELSE servers
    /\ control' = [control EXCEPT !.pc = "clear"]
    /\ UNCHANGED <<server, server_thread, server_enabled, stop_event, server_lock,
                   supervisor, main, budget>>
    /\ ListenerFrame

\* lines 1546, 1557 and 1522: self.server = None
CtlClear ==
    /\ Running
    /\ control.pc = "clear"
    /\ server' = NoServer
    /\ control' = [control EXCEPT !.pc = "done"]
    /\ UNCHANGED <<server_thread, server_enabled, stop_event, server_lock, servers,
                   supervisor, main, budget>>
    /\ ListenerFrame

\* the test of start_http_server: is the listener's worker alive
AlreadyRunningNever == FALSE

AlreadyRunning == is_alive(server_thread)

\* lines 1529-1530
CtlCheck ==
    /\ Running
    /\ control.pc = "check"
    /\ control' = [control EXCEPT !.pc = IF AlreadyRunning THEN "done" ELSE "lock"]
    /\ UNCHANGED <<server, server_thread, server_enabled, stop_event, server_lock,
                   servers, supervisor, main, budget>>
    /\ ListenerFrame

\* lines 1531-1533: the lock, then the test once more
CtlLock ==
    /\ Running
    /\ control.pc = "lock"
    /\ server_lock = "free"
    /\ IF AlreadyRunning
       THEN control' = [control EXCEPT !.pc = "done"] /\ UNCHANGED server_lock
       ELSE control' = [control EXCEPT !.pc = "bind"] /\ server_lock' = "control"
    /\ UNCHANGED <<server, server_thread, server_enabled, stop_event, servers,
                   supervisor, main, budget>>
    /\ ListenerFrame

\* line 1534: the bind of start_http_server
CtlBind ==
    /\ Running
    /\ control.pc = "bind"
    /\ \/ BindOk /\ control' = [control EXCEPT !.pc = "spawn"] /\ UNCHANGED server_lock
       \/ BindFails /\ control' = [control EXCEPT !.pc = "raised"] /\ server_lock' = "free"
    /\ UNCHANGED <<server_enabled, stop_event, supervisor, main>>
    /\ ListenerFrame

\* lines 1534-1535: the worker of start_http_server
CtlSpawn ==
    /\ Running
    /\ control.pc = "spawn"
    /\ \/ SpawnOk /\ control' = [control EXCEPT !.pc = "done"]
       \/ SpawnFails /\ control' = [control EXCEPT !.pc = "raised"]
    /\ server_lock' = "free"
    /\ UNCHANGED <<server_enabled, stop_event, supervisor, main>>
    /\ ListenerFrame

\* the call returns, or its exception ends its thread
CtlReturn ==
    /\ Running
    /\ control.pc \in {"done", "raised"}
    /\ control' = IdleControl
    /\ UNCHANGED <<server, server_thread, server_enabled, stop_event, server_lock,
                   servers, supervisor, main, budget>>
    /\ ListenerFrame

Control ==
    \/ CtlFlag
    \/ CtlTest
    \/ CtlShutdown
    \/ CtlWait
    \/ CtlClose
    \/ CtlClear
    \/ CtlCheck
    \/ CtlLock
    \/ CtlBind
    \/ CtlSpawn
    \/ CtlReturn

Dies(g) ==
    /\ servers' = [servers EXCEPT ![g].thread = "dead", ![g].shutdown_request = FALSE]
    /\ UNCHANGED <<server, server_thread, server_enabled, stop_event, server_lock,
                   supervisor, control, main>>
    /\ ListenerFrame

\* BaseServer.serve_forever: the loop ends on the shutdown request
ServeExit(g) ==
    /\ Running
    /\ servers[g].thread = "alive"
    /\ servers[g].shutdown_request
    /\ UNCHANGED budget
    /\ Dies(g)

\* serve_forever on a socket that was closed under it: select may raise
ServeClosed(g) ==
    /\ Running
    /\ servers[g].thread = "alive"
    /\ servers[g].closed
    /\ UNCHANGED budget
    /\ Dies(g)

\* the worker dies of an exception of its own
Crash(g) ==
    /\ Running
    /\ servers[g].thread = "alive"
    /\ budget.crashes < MaxCrashes
    /\ budget' = [budget EXCEPT !.crashes = @ + 1]
    /\ Dies(g)

InitListener ==
    /\ data_records = InitialRows
    /\ lineage = {}
    /\ audit_log = << >>
    /\ clock = 1
    /\ last_call = NoCall
    /\ get_call = NoGet
    /\ NoScanner
    /\ NoSide
    /\ NoListener
    /\ NoWorkers

NextListener ==
    \/ MainBind
    \/ MainSpawn
    \/ MainReturn
    \/ MainLoopExit
    \/ TimersExit
    \/ Supervisor
    \/ \E op \in {"start", "stop", "restart", "shutdown"} : Call(op)
    \/ Control
    \/ \E g \in 1..Len(servers) : ServeExit(g)
    \/ \E g \in 1..Len(servers) : ServeClosed(g)
    \/ \E g \in 1..Len(servers) : Crash(g)

\* every thread that can run does run; the environment owes nothing
SpecListener ==
    /\ InitListener
    /\ [][NextListener]_vars
    /\ WF_vars(MainSpawn \/ MainReturn \/ MainLoopExit \/ TimersExit)
    /\ WF_vars(Supervisor)
    /\ WF_vars(Control)
    /\ WF_vars(\E g \in 1..Len(servers) : ServeExit(g))

(***************************************************************************)
(* The supervisor later in its life: besides a fresh process, a process    *)
(* whose supervisor has failed to restart the listener one to four times,  *)
(* so that restart_delay is 2, 4, 8 or 15 and server_thread is None.  The  *)
(* server objects of those attempts are garbage; one closed server stands  *)
(* for them.                                                               *)
(***************************************************************************)
FailedDelays == {2, 4, 8, 15}

AfterFailedRestarts(restart_delay) ==
    /\ server = NoServer
    /\ server_thread = NoThread
    /\ server_enabled = TRUE
    /\ stop_event = FALSE
    /\ server_lock = "free"
    /\ servers = <<[closed |-> TRUE, shutdown_request |-> FALSE, thread |-> "dead"]>>
    /\ supervisor = [pc |-> "top", t |-> NoThread, restart_delay |-> restart_delay]
    /\ control = IdleControl
    /\ main = [pc |-> "running", timers |-> "running", start_failed |-> FALSE]
    /\ budget = NoBudget

InitBackoff ==
    /\ data_records = InitialRows
    /\ lineage = {}
    /\ audit_log = << >>
    /\ clock = 1
    /\ last_call = NoCall
    /\ get_call = NoGet
    /\ NoScanner
    /\ NoSide
    /\ \/ NoListener
       \/ \E restart_delay \in FailedDelays : AfterFailedRestarts(restart_delay)
    /\ NoWorkers

SpecBackoff ==
    /\ InitBackoff
    /\ [][NextListener]_vars
    /\ WF_vars(MainSpawn \/ MainReturn \/ MainLoopExit \/ TimersExit)
    /\ WF_vars(Supervisor)
    /\ WF_vars(Control)
    /\ WF_vars(\E g \in 1..Len(servers) : ServeExit(g))

(***************************************************************************)
(* The background workers.  start() runs setup(), whose scan is the first  *)
(* pass, and then starts watcher_loop and health_loop, each on a daemon    *)
(* thread.  Each loop sleeps its interval one second at a time, testing    *)
(* _stop_event before every second, and then does its work: a scan pass,   *)
(* a health snapshot.  ticks counts the seconds of sleep a loop has        *)
(* completed with the flag set.  The intervals are the configured ones     *)
(* (10 and 30 seconds) scaled down.                                        *)
(***************************************************************************)
scan_interval_seconds == 2
health_check_interval_seconds == 3

Loops == {"watcher", "health"}

interval(w) == IF w = "watcher" THEN scan_interval_seconds
               ELSE health_check_interval_seconds

WorkerFrame == UNCHANGED <<store_vars, last_call, get_call, scan_vars, side_vars,
                           server, server_thread, server_enabled, server_lock,
                           servers, supervisor, control, main, budget, post_scan>>

\* setup(): self.scan(), before any worker is started
SetupScan ==
    /\ loops.watcher.pc = "none"
    /\ hist.done = 0
    /\ \/ ScanStart
       \/ \E rel \in TreePaths : ScanFile(rel)
       \/ ScanQuery
       \/ ScanRemoval
       \/ ScanReturn

\* _start_watcher and _start_health_monitor: both threads are started
StartWorkers ==
    /\ loops.watcher.pc = "none"
    /\ hist.done = 1
    /\ scan.pc = "idle"
    /\ loops' = [w \in Loops |-> [IdleLoop EXCEPT !.pc = "while"]]
    /\ UNCHANGED stop_event
    /\ WorkerFrame

\* stop(): self._stop_event.set()
StopFlag ==
    /\ loops.watcher.pc # "none"
    /\ ~stop_event
    /\ stop_event' = TRUE
    /\ UNCHANGED loops
    /\ WorkerFrame

\* while not self._stop_event.is_set()
LoopWhile(w) ==
    /\ loops[w].pc = "while"
    /\ loops' = [loops EXCEPT ![w] = IF stop_event THEN [@ EXCEPT !.pc = "done"]
                                     ELSE [@ EXCEPT !.pc = "for", !.left = interval(w)]]
    /\ UNCHANGED stop_event
    /\ WorkerFrame

\* a loop that sleeps its interval without looking at the flag
FlagSeenInSleepNever == FALSE

\* if self._stop_event.is_set(): return
FlagSeenInSleep == stop_event

\* for _ in range(interval): the test of the flag and into time.sleep(1), or
\* out of the for loop and on to the work with no test
LoopFor(w) ==
    /\ loops[w].pc = "for"
    /\ loops' = [loops EXCEPT ![w] =
                    IF @.left = 0 THEN [@ EXCEPT !.pc = "work", !.called = hist.done]
                    ELSE IF FlagSeenInSleep THEN [@ EXCEPT !.pc = "done"]
                    ELSE [@ EXCEPT !.pc = "sleep"]]
    /\ UNCHANGED stop_event
    /\ WorkerFrame

\* time.sleep(1) returns
LoopWake(w) ==
    /\ loops[w].pc = "sleep"
    /\ loops' = [loops EXCEPT ![w].pc = "for", ![w].left = @ - 1,
                              ![w].ticks = IF stop_event THEN @ + 1 ELSE @]
    /\ UNCHANGED stop_event
    /\ WorkerFrame

\* self.scan() on the watcher's thread: one pass, step by step
WatcherScan ==
    /\ loops.watcher.pc = "work"
    /\ \/ hist.done = loops.watcher.called /\ ScanStart
       \/ \E rel \in TreePaths : ScanFile(rel)
       \/ ScanQuery
       \/ ScanRemoval
       \/ ScanReturn

\* self.scan() has returned: back to the while
WatcherReturned ==
    /\ loops.watcher.pc = "work"
    /\ scan.pc = "idle"
    /\ hist.done > loops.watcher.called
    /\ loops' = [loops EXCEPT !.watcher.pc = "while"]
    /\ UNCHANGED stop_event
    /\ WorkerFrame

\* self.last_health = self._check_health()
HealthCheck ==
    /\ loops.health.pc = "work"
    /\ loops' = [loops EXCEPT !.health.pc = "while"]
    /\ UNCHANGED stop_event
    /\ WorkerFrame

Watcher ==
    \/ LoopWhile("watcher")
    \/ LoopFor("watcher")
    \/ LoopWake("watcher")
    \/ WatcherScan
    \/ WatcherReturned

Health ==
    \/ LoopWhile("health")
    \/ LoopFor("health")
    \/ LoopWake("health")
    \/ HealthCheck

NextWorkers ==
    \/ SetupScan
    \/ StartWorkers
    \/ StopFlag
    \/ Watcher
    \/ Health

\* each thread that can take a step gets to take it
SpecWorkers ==
    /\ InitScan
    /\ [][NextWorkers]_vars
    /\ WF_vars(SetupScan \/ StartWorkers)
    /\ WF_vars(Watcher)
    /\ WF_vars(Health)

(***************************************************************************)
(* Lineage as a graph, stated without the recursion of _get_descendants.   *)
(***************************************************************************)
RECURSIVE Closure(_, _)
Closure(lin, S) ==
    LET T == S \cup UNION {ChildrenOf(lin, u) : u \in S} IN
    IF T = S THEN S ELSE Closure(lin, T)

\* uid and everything below it
Reachable(lin, uid) == Closure(lin, {uid})

\* uid is its own descendant
ReachesItself(lin, uid) == uid \in Closure(lin, ChildrenOf(lin, uid))

Acyclic(lin) == \A e \in lin : ~ReachesItself(lin, e.parent_uid)

EdgePairs(lin) == {<<e.parent_uid, e.child_uid>> : e \in lin}

NoDuplicates(s) == \A i, j \in 1..Len(s) : s[i] = s[j] => i = j

\* This step is a mark_stale(uid) that came back to its caller, or raised
MarkStaleStep(uid) ==
    /\ last_call'.op = "mark_stale"
    /\ last_call'.uid = uid
    /\ last_call' # last_call \/ audit_log' # audit_log

\* This step is a register that returned
RegisterStep ==
    /\ last_call'.op = "register"
    /\ Len(audit_log') = Len(audit_log) + 1
    /\ audit_log'[Len(audit_log')].action = "register"

(***************************************************************************)
(* C1.  After mark_stale(uid) returns on an acyclic lineage graph, uid and *)
(* every record reachable from uid along parent-to-child edges has status  *)
(* stale, and no record outside that set has had its status (or anything   *)
(* else of its row) changed.                                               *)
(***************************************************************************)
C1_MarkStaleReachable ==
    [][\A uid \in UidPool :
        (MarkStaleStep(uid) /\ ~last_call'.raised /\ Acyclic(lineage)) =>
            /\ Len(data_records') = Len(data_records)
            /\ \A i \in 1..Len(data_records) :
                  IF data_records[i].uid \in Reachable(lineage, uid)
                  THEN data_records'[i] = [data_records[i] EXCEPT !.status = "stale"]
                  ELSE data_records'[i] = data_records[i]]_vars

\* mark_stale returned on an acyclic graph where uid has a grandchild that is
\* not its child, and the grandchild's record is stale
C1_Witness ==
    /\ last_call.op = "mark_stale"
    /\ ~last_call.raised
    /\ Acyclic(lineage)
    /\ \E g \in Reachable(lineage, last_call.uid) :
          /\ g # last_call.uid
          /\ g \notin ChildrenOf(lineage, last_call.uid)
          /\ \E r \in Rows(Store) : r.uid = g /\ r.status = "stale"

(***************************************************************************)
(* C2.  mark_stale(uid) terminates normally even when uid indirectly       *)
(* reaches itself: on return uid and each of its descendants has status    *)
(* stale, each one set exactly once, and exactly one audit entry has been  *)
(* appended.                                                               *)
(***************************************************************************)
C2_MarkStaleCycleSafe ==
    [][\A uid \in UidPool :
        (MarkStaleStep(uid) /\ ReachesItself(lineage, uid)) =>
            /\ ~last_call'.raised
            /\ \A r \in Rows(Store)' :
                  r.uid \in Reachable(lineage, uid) => r.status = "stale"
            /\ NoDuplicates(last_call'.updates)
            /\ Len(audit_log') = Len(audit_log) + 1]_vars

\* This step is a delete(uid) that returned
DeleteStep(uid) ==
    /\ last_call'.op = "delete"
    /\ last_call'.uid = uid
    /\ Len(audit_log') = Len(audit_log) + 1
    /\ audit_log'[Len(audit_log')].action = "delete"

(***************************************************************************)
(* What a pass started from, and what changed on disk since the pass       *)
(* before it.                                                              *)
(***************************************************************************)
StartStore == [data_records |-> hist.start_rows, lineage |-> hist.start_lineage,
               audit_log |-> << >>, clock |-> 0]

\* every file the pass walked had a record when the pass started
AllTracked ==
    \A p \in walk_all(hist.walked) : get_by_path(StartStore, p) # {}

\* between the last pass and this one the file at p got other content, and
\* nothing else on disk changed
OnlyChange(p) ==
    /\ hist.last_tree[p] # {}
    /\ hist.walked[p] # {}
    /\ hist.walked[p] # hist.last_tree[p]
    /\ \A q \in TreePaths \ {p} : hist.walked[q] = hist.last_tree[q]

\* This step is the turn of scan's loop over files for the path rel
ScanFileStep(rel) ==
    /\ scan.pc = "files"
    /\ rel \in scan.files
    /\ scan'.pc = "files"
    /\ scan'.files = scan.files \ {rel}

\* every uid the store has ever shown
UsedUids ==
    LiveUids \cup {e.parent_uid : e \in lineage} \cup {e.child_uid : e \in lineage}
        \cup {audit_log[i].target_uid : i \in 1..Len(audit_log)}

(***************************************************************************)
(* C3.  If exactly one tracked file's content changes between two scan     *)
(* passes, the second pass reports updated = 1 and, when it returns, every *)
(* record that was a child of that file's record before the pass, and      *)
(* every descendant of those children, has status stale.                   *)
(***************************************************************************)
C3_OneChangeOneUpdate ==
    (PassComplete /\ hist.done >= 1 /\ AllTracked) =>
        \A p \in TreePaths : OnlyChange(p) =>
            /\ scan.stats.updated = 1
            /\ \A e \in get_by_path(StartStore, p) :
                  \A c \in Closure(hist.start_lineage, e.child_uids) :
                      \A r \in Rows(Store) : r.uid = c => r.status = "stale"

(***************************************************************************)
(* C4.  A scan pass over a tree in which no file was added, removed or     *)
(* changed since the previous pass reports added = 0, updated = 0,         *)
(* removed = 0 and unchanged = the number of tracked files, and changes no *)
(* record's version, status, digest or modified_at; this holds for every   *)
(* tracked file, whether or not a digest could be computed for it.         *)
(***************************************************************************)
C4_UnchangedTreeNoOp ==
    (PassComplete /\ hist.done >= 1 /\ AllTracked /\ hist.walked = hist.last_tree) =>
        /\ scan.stats.added = 0
        /\ scan.stats.updated = 0
        /\ scan.stats.removed = 0
        /\ scan.stats.unchanged = Cardinality(walk_all(hist.walked))
        /\ \A r \in Range(hist.start_rows) :
              \E q \in Rows(Store) :
                  /\ q.uid = r.uid
                  /\ q.version = r.version
                  /\ q.status = r.status
                  /\ q.hash_sha256 = r.hash_sha256
                  /\ q.modified_at = r.modified_at

(***************************************************************************)
(* C5.  When a scan pass observes a path that has no record, it creates    *)
(* exactly one record for it, with a fresh uid, version 1, created_at =    *)
(* modified_at and the status taken from validation, and counts it exactly *)
(* once as added; no existing record is modified by this.                  *)
(***************************************************************************)
C5_NewPathOneRecord ==
    [][\A p \in TreePaths : \A file \in fs[p] :
        (ScanFileStep(p) /\ get_by_path(Store, p) = {}) =>
            /\ Len(data_records') = Len(data_records) + 1
            /\ SubSeq(data_records', 1, Len(data_records)) = data_records
            /\ lineage' = lineage
            /\ LET r == data_records'[Len(data_records')] IN
                /\ r.path = p
                /\ r.uid \notin UsedUids
                /\ r.version = 1
                /\ r.created_at = r.modified_at
                /\ r.status = validate_json_file(p, file).status
            /\ scan'.stats = [scan.stats EXCEPT !.added = @ + 1]]_vars

\* a later pass found a new file that fails validation next to a tracked one:
\* the new record is invalid, the older record is untouched
C5_Witness ==
    /\ scan.pc = "files"
    /\ hist.done >= 1
    /\ scan.stats.added = 1
    /\ Len(data_records) = 2
    /\ data_records[1] = hist.start_rows[1]
    /\ data_records[2].version = 1
    /\ data_records[2].status = "invalid"
    /\ data_records[2].created_at > data_records[1].modified_at

(***************************************************************************)
(* C6.  When a tracked file is no longer on disk, the next scan pass       *)
(* deletes its record and counts it exactly once as removed: after the     *)
(* pass get_by_path(path) returns none.  Records of files that are still   *)
(* on disk are not deleted.                                                *)
(***************************************************************************)
C6_GoneFileRecordDeleted ==
    PassComplete =>
        /\ \A r \in Range(hist.start_rows) :
              IF hist.walked[r.path] = {}
              THEN get_by_path(Store, r.path) = {}
              ELSE r.uid \in LiveUids
        /\ scan.stats.removed =
              Cardinality({r \in Range(hist.start_rows) : hist.walked[r.path] = {}})

\* a pass that started from two records ends with one removed and the other,
\* whose file is still on disk, in place
C6_Witness ==
    /\ PassComplete
    /\ Len(hist.start_rows) = 2
    /\ scan.stats.removed = 1
    /\ \E r \in Range(hist.start_rows) :
          /\ hist.walked[r.path] = {}
          /\ get_by_path(Store, r.path) = {}
    /\ \E r \in Range(hist.start_rows) :
          /\ hist.walked[r.path] # {}
          /\ get_by_path(Store, r.path) # {}

(***************************************************************************)
(* C7.  The digest of a file larger than the configured maximum is none,   *)
(* and the scanner still registers a record for such a file (counted as    *)
(* added on first observation) carrying its size and an empty digest.      *)
(***************************************************************************)
C7_LargeFileEmptyDigest ==
    [][\A p \in TreePaths : \A file \in fs[p] :
        (ScanFileStep(p) /\ file.size > HashMaxBytes) =>
            /\ hash_file(file) = NoneHash
            /\ get_by_path(Store, p) = {} =>
                  /\ \E r \in get_by_path(Store, p)' :
                        r.size = file.size /\ r.hash_sha256 = EmptyHash
                  /\ scan'.stats.added = scan.stats.added + 1]_vars

\* a pass has added the record of a file larger than the maximum
C7_Witness ==
    /\ scan.pc = "files"
    /\ scan.stats.added >= 1
    /\ \E p \in scan.seen_paths : \E file \in fs[p] :
          /\ file.size > HashMaxBytes
          /\ get_by_path(StartStore, p) = {}
          /\ \E r \in get_by_path(Store, p) :
                r.size = file.size /\ r.hash_sha256 = EmptyHash /\ r.version = 1

(***************************************************************************)
(* C8.  register never changes the version it is given, and registering    *)
(* again the record that get returns leaves the record row and the lineage *)
(* edges (the (parent, child) pairs) as they were, with the same version.  *)
(***************************************************************************)
C8_RegisterRoundTrip ==
    [][RegisterStep =>
        \A record \in last_call'.given :
            /\ \E r \in Rows(Store)' : r.uid = record.uid /\ r.version = record.version
            /\ record \in get(Store, record.uid) =>
                  /\ Rows(Store)' = Rows(Store)
                  /\ EdgePairs(lineage') = EdgePairs(lineage)
                  /\ get(Store, record.uid)' = {record}]_vars

\* a record with a parent was registered, read back by a get that no write
\* interleaved with, and registered again
C8_Witness ==
    /\ last_call.op = "register"
    /\ get_call.pc = "returned"
    /\ last_call.given = get_call.result
    /\ Cardinality(get_call.seen) = 1
    /\ \E record \in get_call.result :
          /\ record.parent_uids # {}
          /\ record.version = NextVersion
          /\ get(Store, record.uid) = {record}
    /\ Len(audit_log) = 2
    /\ audit_log[1].action = "register"
    /\ audit_log[1].target_uid = last_call.uid

(***************************************************************************)
(* C9.  After register(record), the lineage edges that link record.uid to  *)
(* its parents are exactly {(p, record.uid) : p in record.parent_uids}:    *)
(* every earlier parent edge not in the supplied set is gone, and every    *)
(* supplied parent has an edge.                                            *)
(***************************************************************************)
C9_RegisterReplacesParents ==
    last_call.op = "register" =>
        \A record \in last_call.given :
            {p \in EdgePairs(lineage) : p[2] = record.uid}
                = {<<q, record.uid>> : q \in record.parent_uids}

\* a register that dropped an earlier parent and added a new one
C9_Witness ==
    /\ last_call.op = "register"
    /\ \E record \in last_call.given :
          /\ last_call.old_parents \ record.parent_uids # {}
          /\ record.parent_uids \ last_call.old_parents # {}
          /\ ParentsOf(lineage, record.uid) = record.parent_uids

(***************************************************************************)
(* C10.  The parent_uids and child_uids returned by get(uid) equal the     *)
(* parents and children of uid in the lineage table in one single state of *)
(* the store at the time of the call, also when register, mark_stale or    *)
(* delete run concurrently with the get.                                   *)
(***************************************************************************)
C10_GetReadsOneState ==
    get_call.pc = "returned" =>
        \A record \in get_call.result :
            <<record.parent_uids, record.child_uids>> \in get_call.seen

(***************************************************************************)
(* C11.  delete(uid) removes exactly the record uid and exactly the        *)
(* lineage edges in which uid is parent or child; every other record,      *)
(* including the children of uid, still exists with its status (and the    *)
(* rest of its row) unchanged, and every other edge is unchanged.          *)
(***************************************************************************)
C11_DeleteFrame ==
    [][\A uid \in UidPool : DeleteStep(uid) =>
        /\ data_records' = SelectSeq(data_records, LAMBDA r : r.uid # uid)
        /\ uid \notin LiveUids'
        /\ lineage' = {e \in lineage : e.parent_uid # uid /\ e.child_uid # uid}
        /\ lineage \ lineage' =
              {e \in lineage : e.parent_uid = uid \/ e.child_uid = uid}]_vars

\* a record with a parent and a child was deleted: both neighbours are still
\* there and valid, and an edge between other records is still there
C11_Witness ==
    /\ last_call.op = "delete"
    /\ last_call.uid \notin LiveUids
    /\ last_call.old_parents \ {last_call.uid} # {}
    /\ \E c \in last_call.old_children \ {last_call.uid} :
          \E r \in Rows(Store) : r.uid = c /\ r.status = "valid"
    /\ lineage # {}
    /\ \A e \in lineage : e.parent_uid # last_call.uid /\ e.child_uid # last_call.uid

(***************************************************************************)
(* C12.  Every call of register, mark_stale or delete that completes       *)
(* appends exactly one audit entry with that action and target uid, and    *)
(* existing audit entries are never updated or deleted: the audit log only *)
(* grows.                                                                  *)
(***************************************************************************)
C12_AuditAppendOnly ==
    [][/\ Len(audit_log') >= Len(audit_log)
       /\ SubSeq(audit_log', 1, Len(audit_log)) = audit_log
       /\ ~last_call'.raised =>
             /\ Len(audit_log') = Len(audit_log) + 1
             /\ audit_log'[Len(audit_log')].action = last_call'.op
             /\ audit_log'[Len(audit_log')].target_uid = last_call'.uid]_vars

\* a mark_stale and then a delete completed: the log holds the entry of each,
\* the older one first
C12_Witness ==
    /\ last_call.op = "delete"
    /\ Len(audit_log) = 2
    /\ audit_log[1].action = "mark_stale"
    /\ audit_log[2].action = "delete"
    /\ audit_log[2].target_uid = last_call.uid
    /\ audit_log[1].timestamp < audit_log[2].timestamp

(***************************************************************************)
(* C13.  In every reachable state no two live records have the same path,  *)
(* after any sequence or interleaving of scan passes, register calls and   *)
(* delete calls.                                                           *)
(***************************************************************************)
C13_PathUnique ==
    \A i, j \in 1..Len(data_records) :
        data_records[i].path = data_records[j].path => i = j

(***************************************************************************)
(* C14.  A record is updated in place: for a file that stays on disk,      *)
(* every scan pass, whether it finds the file changed or not, keeps the    *)
(* same uid and the same created_at for that path; the record is never     *)
(* replaced by one with a new uid.                                         *)
(***************************************************************************)
C14_UpdatedInPlace ==
    PassComplete =>
        \A r \in Range(hist.start_rows) :
            hist.walked[r.path] # {} =>
                \A q \in Rows(Store) :
                    q.path = r.path => q.uid = r.uid /\ q.created_at = r.created_at

\* a pass found one tracked file changed and another unchanged: both records
\* have the uid and created_at they had, the changed one a later modified_at
C14_Witness ==
    /\ PassComplete
    /\ scan.stats.updated = 1
    /\ scan.stats.unchanged = 1
    /\ Len(data_records) = 2
    /\ \E r \in Range(hist.start_rows) : \E q \in Rows(Store) :
          /\ q.uid = r.uid
          /\ q.path = r.path
          /\ q.created_at = r.created_at
          /\ q.hash_sha256 # r.hash_sha256
          /\ q.modified_at > r.modified_at

(***************************************************************************)
(* C15.  For each uid, version strictly increases on every content change  *)
(* the scanner registers (by exactly 1 in each pass that detects a change) *)
(* and never decreases over any sequence of scan passes.                   *)
(***************************************************************************)
C15_VersionMonotonic ==
    [][/\ \A r \in Rows(Store) : \A q \in Rows(Store)' :
             q.uid = r.uid =>
                /\ q.version >= r.version
                /\ (q.hash_sha256 # r.hash_sha256 \/ q.size # r.size) =>
                      q.version = r.version + 1
       /\ scan'.pc # "idle" =>
             \A r \in Range(hist'.start_rows) : \A q \in Rows(Store)' :
                 q.uid = r.uid =>
                    q.version = IF q.hash_sha256 # r.hash_sha256 \/ q.size # r.size
                                   \/ q.modified_at # r.modified_at
                                THEN r.version + 1 ELSE r.version]_vars

\* the second pass registered a content change of a file the first pass added:
\* its record went from version 1 to version 2
C15_Witness ==
    /\ PassComplete
    /\ hist.done >= 1
    /\ \E r \in Range(hist.start_rows) : \E q \in Rows(Store) :
          /\ q.uid = r.uid
          /\ r.version = 1
          /\ q.version = 2
          /\ q.hash_sha256 # r.hash_sha256
          /\ q.hash_sha256 # EmptyHash

(***************************************************************************)
(* C16.  No lineage edge references the uid of a deleted record: in every  *)
(* reachable state, including when delete(uid) interleaves with a caller   *)
(* that read a child of uid and then re-registers it, each edge's parent   *)
(* uid and child uid belong to live records.                               *)
(***************************************************************************)
C16_EdgesReferenceLiveRecords ==
    \A e \in lineage : e.parent_uid \in LiveUids /\ e.child_uid \in LiveUids

(***************************************************************************)
(* C17.  After a scan pass marks a record stale because an upstream input  *)
(* changed, the build queue holds a pending build job that records the     *)
(* intent to rebuild that record; the registry never runs the builder      *)
(* itself.                                                                 *)
(***************************************************************************)
C17_StaleRecordHasBuildJob ==
    PassComplete =>
        \A r \in Range(hist.start_rows) : \A q \in Rows(Store) :
            (q.uid = r.uid /\ r.status # "stale" /\ q.status = "stale") =>
                \E i \in 1..Len(build_queue) :
                    /\ build_queue[i].status = "pending"
                    /\ build_queue[i].target_path = q.path
                    /\ build_queue[i].source_uid \in ParentsOf(lineage, q.uid)

(***************************************************************************)
(* C18.  get_pending_builds returns exactly the build jobs whose status is *)
(* pending, ordered by priority (higher priority first) and, among equal   *)
(* priorities, by creation time ascending; a job moved to running,         *)
(* completed or failed no longer appears.                                  *)
(***************************************************************************)
C18_PendingBuildsOrdered ==
    reply.op = "get_pending_builds" =>
        /\ Range(reply.result) =
              {job \in Range(reply.read) : job.status = "pending"}
        /\ NoDuplicates(reply.result)
        /\ \A i, j \in 1..Len(reply.result) :
              i < j =>
                 \/ reply.result[i].priority > reply.result[j].priority
                 \/ /\ reply.result[i].priority = reply.result[j].priority
                    /\ reply.result[i].created_at <= reply.result[j].created_at

\* three jobs were queued and one of them went to running: the read returned
\* the other two, the one queued later first because its priority is higher
C18_Witness ==
    /\ reply.op = "get_pending_builds"
    /\ Len(reply.read) = 3
    /\ Len(reply.result) = 2
    /\ reply.result[1].id > reply.result[2].id
    /\ reply.result[1].priority > reply.result[2].priority
    /\ \E job \in Range(reply.read) : job.status = "running"

(***************************************************************************)
(* C19.  query(limit=N) never returns more than N records, for every N and *)
(* regardless of how many records match the filters: whenever records are  *)
(* returned there are at most N of them (for N below zero, none).          *)
(***************************************************************************)
C19_QueryWithinLimit ==
    (reply.op = "query" /\ Len(reply.result) > 0)
        => Len(reply.result) <= reply.asked.limit

(***************************************************************************)
(* C20.  The touch-zone colour lookup is insensitive to case and to a      *)
(* leading '#': two keys that differ only in that return the same zone,    *)
(* and a zone stored under either form of the asked colour is found.       *)
(***************************************************************************)
LowerChar(ch) == IF ch = "A" THEN "a" ELSE ch

WithoutLeadingHash(str) == IF str # << >> /\ Head(str) = "#" THEN Tail(str) ELSE str

Fold(str) ==
    LET bare == WithoutLeadingHash(str)
    IN [i \in 1..Len(bare) |-> LowerChar(bare[i])]

C20_ColorLookupInsensitive ==
    reply.op = "lookup" =>
        /\ \A other \in ColorCodes :
              Fold(other) = Fold(reply.asked)
                  => get_touch_zone_by_color(reply.read, other) = reply.result
        /\ (\E i \in 1..Len(reply.read) :
                Fold(reply.read[i].color_hex) = Fold(reply.asked))
              => reply.result # {}

C20_Witness ==
    /\ reply.op = "lookup"
    /\ Head(reply.asked) = "#"
    /\ \E z \in reply.result :
          /\ z.color_hex # reply.asked
          /\ Head(z.color_hex) # "#"
          /\ Fold(z.color_hex) = Fold(reply.asked)
          /\ z.color_hex # WithoutLeadingHash(reply.asked)

(***************************************************************************)
(* C21.  If the listener's worker dies while the listener is enabled and   *)
(* the process is not shutting down, a new listener is eventually bound    *)
(* and serving again (unless the listener is disabled or the process shut  *)
(* down in the meantime).                                                  *)
(***************************************************************************)
Supervised == Running /\ supervisor.pc # "none"

C21_WorkerRestarted ==
    (Supervised /\ server_enabled /\ ~stop_event /\ ~Serving)
        ~> (Serving \/ ~server_enabled \/ stop_event)

(***************************************************************************)
(* C22.  After stop_http_server() has been called, no listener is bound    *)
(* or started until start_http_server() or restart_http_server() is        *)
(* called again.  _server_enabled is false exactly from the first          *)
(* statement of a stop to the first statement of the next start or         *)
(* restart.                                                                *)
(***************************************************************************)
BindsOrStarts ==
    \/ Len(servers') > Len(servers)
    \/ \E g \in 1..Len(servers) : servers[g].thread = "none" /\ servers'[g].thread = "alive"

C22_NoRestartAfterStop == [][~server_enabled => ~BindsOrStarts]_vars

(***************************************************************************)
(* C23.  The supervisor's restart delay starts at 1, doubles after each    *)
(* failed restart attempt, never exceeds 15, never falls below 1, and is   *)
(* back at 1 after every successful restart.                               *)
(***************************************************************************)
SupervisorLaunched == supervisor.pc = "none" /\ supervisor'.pc # "none"

RestartAttempt == supervisor.pc \in {"bind", "spawn"} /\ supervisor'.pc = "top"

RestartSucceeded == RestartAttempt /\ is_alive(server_thread)'

RestartFailed == RestartAttempt /\ ~is_alive(server_thread)'

Doubled(delay) == IF delay + delay > 15 THEN 15 ELSE delay + delay

C23_BackoffDoubling ==
    [][/\ supervisor'.restart_delay >= 1
       /\ supervisor'.restart_delay <= 15
       /\ SupervisorLaunched => supervisor'.restart_delay = 1
       /\ RestartFailed => supervisor'.restart_delay = Doubled(supervisor.restart_delay)
       /\ RestartSucceeded => supervisor'.restart_delay = 1
       /\ ~RestartAttempt =>
              supervisor'.restart_delay \in {supervisor.restart_delay, 1}]_vars

C23_Witness ==
    /\ supervisor.restart_delay = 15
    /\ budget.bind_failures > 0
    /\ supervisor.pc = "top"
    /\ server_thread = NoThread

(***************************************************************************)
(* C24.  A bind failure at the initial listener start is reported as a     *)
(* start failure and does not force the process down: the global shutdown  *)
(* flag stays unset and the orchestrator stays up.                         *)
(***************************************************************************)
C24_StartFailureKeepsProcess ==
    main.start_failed => (~stop_event /\ main.pc # "exited")

(***************************************************************************)
(* C25.  The listener control operations are idempotent and independent of *)
(* whole-process shutdown: a step of start_http_server() taken while the   *)
(* listener's worker is alive binds and starts nothing; a step of          *)
(* stop_http_server() taken in the state a stop leaves (disabled, no       *)
(* server) changes nothing of the listener; no step of start, stop or      *)
(* restart sets the shutdown flag or touches the timers.                   *)
(***************************************************************************)
ControlStep(op) == control.op = op /\ control' # control

ListenerState == <<server, server_thread, server_enabled, servers, server_lock>>

C25_ControlIdempotent ==
    [][/\ (ControlStep("start") /\ is_alive(server_thread)) => ~BindsOrStarts
       /\ (ControlStep("stop") /\ ~server_enabled /\ server = NoServer)
              => UNCHANGED ListenerState
       /\ (\E op \in {"start", "stop", "restart"} : ControlStep(op))
              => UNCHANGED <<stop_event, main>>]_vars

C25_Witness ==
    /\ control.op = "start"
    /\ control.pc = "done"
    /\ Serving
    /\ Len(servers) = 1
    /\ main.timers = "running"

(***************************************************************************)
(* C26.  A stop or restart of the listener requested from a request        *)
(* handler, concurrently with the supervisor, never deadlocks: the call    *)
(* completes, that is, it comes to its return and never ends by an         *)
(* exception, and the supervisor is never left waiting for the lock.       *)
(***************************************************************************)
C26_StopRestartNoDeadlock ==
    /\ [][control.op \in {"stop", "restart"} => control'.pc # "raised"]_vars
    /\ \A op \in {"stop", "restart"} :
          (Running /\ control.op = op /\ control.pc = "flag")
              ~> ((control.op = op /\ control.pc = "done") \/ ~Running)
    /\ (Running /\ supervisor.pc = "lock") ~> (supervisor.pc = "bind" \/ ~Running)

(***************************************************************************)
(* C27.  After restart_http_server() is called the enabled flag is true    *)
(* and a listener is eventually bound and serving again, provided no bind  *)
(* fails from then on and the listener is not stopped nor the process shut *)
(* down in the meantime.                                                   *)
(***************************************************************************)
C27_RestartServesAgain ==
    \A failures \in 0..MaxBindFailures :
        (Running /\ control.op = "restart" /\ control.pc = "test"
                 /\ budget.bind_failures = failures)
            ~> \/ Serving /\ server_enabled
               \/ ~server_enabled
               \/ stop_event
               \/ budget.bind_failures > failures

(***************************************************************************)
(* C28.  Within one scan pass the phases are strictly sequenced: a step of *)
(* the pass that deletes a record comes after every enumerated path has    *)
(* been classified and upserted.                                           *)
(***************************************************************************)
Enumerated == walk_all(hist.walked)

PassDeletes ==
    /\ scan.pc # "idle"
    /\ scan'.pc # "idle"
    /\ LiveUids \ LiveUids' # {}

C28_DeleteAfterUpserts ==
    [][PassDeletes => /\ scan.pc = "removal"
                      /\ scan.files = {}
                      /\ scan.seen_paths = Enumerated
                      /\ scan'.stats.removed = scan.stats.removed + 1]_vars

C28_Witness ==
    /\ scan.pc = "removal"
    /\ scan.stats.removed > 0
    /\ scan.stats.added + scan.stats.updated + scan.stats.unchanged > 0
    /\ Enumerated # {}

(***************************************************************************)
(* C29.  An error while processing one path during a scan never aborts the *)
(* pass: the error is counted in errors, every other enumerated path is    *)
(* still processed, the removal phase still runs, and the pass returns its *)
(* counts.  The body raises when the file is gone (path.stat()) and when   *)
(* mark_stale of a child of the changed record meets a lineage cycle.      *)
(***************************************************************************)
StatRaises(rel) == fs[rel] = {}

MarkStaleRaises(rel) ==
    /\ fs[rel] # {}
    /\ \E e \in get_by_path(Store, rel), file \in fs[rel] :
          /\ Changed(e, hash_file(file), file)
          /\ \E child \in e.child_uids, uid \in UidPool :
                uid \in Reachable(lineage, child) /\ ReachesItself(lineage, uid)

BodyRuns(rel) ==
    /\ scan.pc = "files"
    /\ rel \in scan.files
    /\ rel \in scan'.seen_paths \ scan.seen_paths

PassReturns == scan.pc = "removal" /\ scan'.pc = "idle"

Processed(stats) == stats.added + stats.updated + stats.unchanged + stats.errors

C30_StorageErrorLeavesStore ==
    (reply.op = "storage" /\ reply.asked[2] # "none")
        => /\ last_call.raised
           /\ Tables(Store) = reply.read

(***************************************************************************)
(* C31.  Once the global shutdown flag is set, the scan loop and the       *)
(* health loop each terminate, and each notices the flag within one        *)
(* polling increment of its sleep: no loop completes more than one second  *)
(* of sleep with the flag set.  A pass the watcher still has to run is one *)
(* the bound on passes leaves room for.                                    *)
(***************************************************************************)
C31_LoopsStopWithinOneTick ==
    /\ [](\A w \in Loops : loops[w].ticks <= 1)
    /\ (stop_event /\ hist.done < MaxPasses) ~> (loops.watcher.pc = "done")
    /\ stop_event ~> (loops.health.pc = "done")

C31_Witness ==
    /\ stop_event
    /\ loops.watcher.pc = "done"
    /\ loops.health.pc = "done"
    /\ loops.watcher.ticks = 1
    /\ loops.health.ticks = 1

(***************************************************************************)
(* C36.  After the global shutdown flag is set the scan loop starts no new *)
(* scan pass and the health loop computes no new snapshot: no loop goes on *)
(* to its work with the flag set.  A pass already running when the flag is *)
(* set runs to completion: no step of a pass ends it before its return.    *)
(***************************************************************************)
C36_NoWorkAfterFlag ==
    /\ [][\A w \in Loops :
             (loops[w].pc # "work" /\ loops'[w].pc = "work") => ~stop_event]_vars
    /\ [][(scan.pc # "idle" /\ scan'.pc = "idle") => PassComplete]_vars

(***************************************************************************)
(* C35.  Once stop() has set the shutdown flag the supervisor never binds  *)
(* or starts a listener again, also when stop() arrives while the          *)
(* supervisor is between its test of the flag after the backoff and the    *)
(* restart.                                                                *)
(***************************************************************************)
SupervisorBindsOrStarts ==
    /\ supervisor.pc \in {"bind", "spawn"}
    /\ supervisor'.pc # supervisor.pc
    /\ BindsOrStarts

C35_NoRestartAfterShutdown == [][stop_event => ~SupervisorBindsOrStarts]_vars

(***************************************************************************)
(* C32.  A malformed request or an unknown API route gets a client error   *)
(* response, a 4xx status with the structured error body, and has no       *)
(* effect on the registry.  A request is malformed when its body is no     *)
(* JSON or its Content-Length no number, and when it posts to records a    *)
(* body that is not a whole record.                                        *)
(***************************************************************************)
MalformedRequest(path, body) ==
    /\ path[1] = "api"
    /\ \/ body.kind \in {"malformed", "bad_length"}
       \/ path = <<"api", "records">> /\ body.kind # "record"

UnknownRoute(path) == path = <<"api", "nope">>

C32_ClientErrorNoEffect ==
    (/\ reply.op = "post"
     /\ MalformedRequest(reply.asked[1], reply.asked[2]) \/ UnknownRoute(reply.asked[1]))
        => /\ reply.result[1].status \in 400..499
           /\ reply.result[1].error
           /\ Tables(Store) = reply.read

(***************************************************************************)
(* C33.  When the scanner registers a content change for a record, that    *)
(* record's own status is set to its validation result and not to stale,   *)
(* even if the record was stale before the change; the records the step    *)
(* turns stale are below the record in the lineage, never the record.      *)
(***************************************************************************)
StatusOf(rows, uid) == {rows[i].status : i \in {j \in 1..Len(rows) : rows[j].uid = uid}}

TurnedStale == {uid \in UidPool \cup LiveUids :
                  "stale" \in StatusOf(data_records', uid)
                      /\ "stale" \notin StatusOf(data_records, uid)}

C33_ChangedRecordNotStale ==
    [][\A rel \in TreePaths :
          BodyRuns(rel) =>
              \A e \in get_by_path(Store, rel), file \in fs[rel] :
                  Changed(e, hash_file(file), file)
                      => /\ StatusOf(data_records', e.uid)
                               = {validate_json_file(rel, file).status}
                         /\ TurnedStale \subseteq Reachable(lineage, e.uid) \ {e.uid}]_vars

C33_Witness ==
    /\ scan.pc = "files"
    /\ \E i \in 1..Len(data_records), j \in 1..Len(hist.start_rows) :
          /\ data_records[i].uid = hist.start_rows[j].uid
          /\ hist.start_rows[j].status = "stale"
          /\ data_records[i].version > hist.start_rows[j].version
          /\ data_records[i].status = "valid"
          /\ \E k \in 1..Len(data_records) :
                /\ data_records[k].status = "stale"
                /\ data_records[k].uid \in ChildrenOf(lineage, data_records[i].uid)

(***************************************************************************)
(* C34.  The descendant count written in the audit entry of                *)
(* mark_stale(uid) equals the number of distinct records reachable from    *)
(* uid, also when a descendant is reachable along more than one path.      *)
(***************************************************************************)
C34_DescendantCountDistinct ==
    (last_call.op = "mark_stale" /\ ~last_call.raised /\ audit_log # << >>)
        => audit_log[Len(audit_log)].details.descendants
               = Cardinality(Reachable(lineage, last_call.uid) \ {last_call.uid})

(***************************************************************************)
(* C38.  The record statuses left by a scan pass do not depend on the      *)
(* order in which the pass processes paths: for the same tree and the same *)
(* registry state, any two processing orders end with the same status for  *)
(* every record, including when a parent and its child both changed.       *)
(***************************************************************************)
C38_StatusesOrderIndependent ==
    reply.op = "scan" => reply.read = reply.result

(***************************************************************************)
(* C40.  A scan pass never adds a lineage edge and removes only edges      *)
(* incident to the records it deletes: re-registering a changed record     *)
(* keeps every edge in which that record is child or parent.               *)
(***************************************************************************)
PassStep == scan.pc # "idle" /\ scan' # scan

DeletedUids == LiveUids \ {data_records'[i].uid : i \in 1..Len(data_records')}

C40_PassKeepsLineage ==
    [][PassStep =>
          /\ EdgePairs(lineage') \subseteq EdgePairs(lineage)
          /\ \A pair \in EdgePairs(lineage) \ EdgePairs(lineage') :
                pair[1] \in DeletedUids \/ pair[2] \in DeletedUids]_vars

C40_Witness ==
    /\ scan.pc = "files"
    /\ \E i \in 1..Len(data_records), j \in 1..Len(hist.start_rows) :
          /\ data_records[i].uid = hist.start_rows[j].uid
          /\ data_records[i].version > hist.start_rows[j].version
          /\ ParentsOf(lineage, data_records[i].uid) # {}
          /\ ParentsOf(lineage, data_records[i].uid)
                = ParentsOf(hist.start_lineage, data_records[i].uid)

(***************************************************************************)
(* C39.  At most one listener is bound and serving at any time:            *)
(* start_http_server() and the supervisor's restart never both create a    *)
(* listener for the same outage, and neither closes a listener the other   *)
(* has just started.  Which binds the platform refuses while another       *)
(* socket listens is not the code's doing; stated here is the code's part, *)
(* on listeners bound while every earlier one was closed.                  *)
(***************************************************************************)
OthersClosed(g) == \A h \in 1..Len(servers) : h # g => servers[h].closed

\* the supervisor's cleanup closes a server whose worker is serving
SupervisorClosesServing ==
    /\ supervisor.pc = "cleanup"
    /\ supervisor'.pc = "lock"
    /\ server # NoServer
    /\ servers[server].thread = "alive"
    /\ ~servers[server].shutdown_request
    /\ OthersClosed(server)

\* the supervisor binds for a death after which another thread has already
\* started a listener
SupervisorBindsAgain ==
    /\ supervisor.pc = "bind"
    /\ Len(servers') > Len(servers)
    /\ OthersClosed(NoServer)
    /\ server_thread \notin {NoThread, supervisor.t}

C39_OneListener ==
    [][~SupervisorClosesServing /\ ~SupervisorBindsAgain]_vars

(***************************************************************************)
(* C37.  When two scan passes run concurrently (the background timer and   *)
(* POST /scan), neither deletes the record of a file that is on disk at    *)
(* the moment of the deletion: a file created and registered by one pass   *)
(* after the other pass enumerated the tree keeps its record and its uid.  *)
(***************************************************************************)
\* a turn of the removal loop of either pass
RemovalTurn ==
    \/ scan.pc = "removal" /\ scan'.all_records # scan.all_records
    \/ post_scan.pc = "removal" /\ post_scan'.all_records # post_scan.all_records

C37_ConcurrentPassesKeepFilesOnDisk ==
    [][RemovalTurn =>
          \A r \in Rows(Store) :
              fs[r.path] # {} => \E q \in Rows(Store') : q.uid = r.uid]_vars

====
